---- MODULE Spec2Model ----
(***************************************************************************)
(* Model of the organisation passes of photoguru (src/python/agent_v2.py): *)
(* PhotoContextAnalyzer.create_groups and the duplicate / burst / score    *)
(* normalisation passes of batch_analyze_photos_v2.                        *)
(*                                                                         *)
(* Conventions                                                             *)
(*  - a photo is a record; its position in `photos` (analyzer.photos) is   *)
(*    its identity, `filepath` holds the same number (file stems are       *)
(*    distinct);                                                           *)
(*  - Python None is modelled by None (-1) for numbers and by NoneT (<<>>) *)
(*    for tuples, arrays and strings;                                      *)
(*  - timestamps are whole seconds, coordinates are milli-degrees,         *)
(*    scores are tenths; quotients are kept as exact fractions        *)
(*    [n, d], so floating point rounding is not modelled.                  *)
(***************************************************************************)
EXTENDS Integers, Sequences, FiniteSets, TLC

VARIABLES
    photos,            \* analyzer.photos : sequence of PhotoMetadata records
    groups,            \* analyzer.groups (self.groups)
    returned,          \* value returned by the last create_groups() call
    calls,             \* number of create_groups() calls made so far
    regime,            \* branch the last create_groups() call took
    pc,                \* position inside batch_analyze_photos_v2
    photos_sorted,     \* burst pass: dated photos in ascending timestamp order
    i,                 \* burst pass: scan index (1-based; the code's i + 1)
    burst_groups,      \* burst pass: sequence of [burst_id, members]
    burst_id_counter,  \* burst pass: next burst number
    last_scan,         \* burst pass: what the last outer iteration did
    hashes,            \* duplicate pass: hashes[filepath], a hex string
    duplicate_groups,  \* duplicate pass: dict group_id -> member filepaths
    processed,         \* duplicate pass: filepaths absorbed so far
    dup_i,             \* duplicate pass: index of the next seed (the code's i + 1)
    last_dup,          \* duplicate pass: what the last outer iteration did
    compared,          \* cmd_compare: the two hashes and what was reported
    faces,             \* detect_faces(photo.filepath)['face_embeddings'] per photo
    face_result,       \* value returned by recognize_faces_in_batch
    compose_call,      \* SemanticKey.compose: arguments and outcome
    align_call,        \* SemanticKey.alignment: key, argument and value returned
    field_call         \* SemanticField.activate: field, decay and list returned

vars == <<photos, groups, returned, calls, regime, pc, photos_sorted, i,
          burst_groups, burst_id_counter, last_scan, hashes, duplicate_groups,
          processed, dup_i, last_dup, compared, faces, face_result, compose_call,
          align_call, field_call>>

groupVars == <<groups, returned, calls, regime>>
burstVars == <<photos_sorted, i, burst_groups, burst_id_counter, last_scan>>
dupVars == <<hashes, duplicate_groups, processed, dup_i, last_dup>>
faceVars == <<faces, face_result>>

(***************************************************************************)
(* Bounds                                                                  *)
(***************************************************************************)
NumPhotos == 3          \* largest batch
MaxCalls == 2           \* create_groups() is called at most this many times

(***************************************************************************)
(* Python values                                                           *)
(***************************************************************************)
None == -1
NoneT == <<>>

\* bool(x) of an Optional[float]: None and 0.0 are both false
Truthy(x) == x # None /\ x # 0

RECURSIVE SeqSum(_)
SeqSum(s) == IF s = <<>> THEN 0 ELSE Head(s) + SeqSum(Tail(s))

Range(s) == {s[k] : k \in 1..Len(s)}

RECURSIVE Isqrt(_, _)
Isqrt(n, x) ==
    LET y == (x + n \div x) \div 2
    IN  IF y >= x THEN x ELSE Isqrt(n, y)

\* floor(sqrt(n)), by Newton's iteration
Sqrt(n) == IF n = 0 THEN 0 ELSE Isqrt(n, n)

\* the parts of the program a run does not enter
InitDupIdle ==
    /\ hashes = <<>>
    /\ duplicate_groups = <<>>
    /\ processed = {}
    /\ dup_i = 0
    /\ last_dup = NoneT

InitCompareIdle == compared = NoneT

InitFacesIdle ==
    /\ faces = <<>>
    /\ face_result = NoneT

InitComposeIdle == compose_call = NoneT

InitAlignIdle == align_call = NoneT

InitFieldIdle == field_call = NoneT


(***************************************************************************)
(* PhotoMetadata                                                           *)
(***************************************************************************)
\* a score held as an exact fraction n / d of tenths (d > 0)
Frac(n, d) == [n |-> n, d |-> d]
FracLess(a, b) == a.n * b.d < b.n * a.d
FracEq(a, b) == a.n * b.d = b.n * a.d

\* 1.0 if photo.face_count and photo.face_count > 0 else 0.5, in tenths
face_factor(fc) == IF Truthy(fc) /\ fc > 0 THEN 10 ELSE 5

\* pass 1: technical_quality, then tech_overall_quality with the aesthetic score
pass1_overall_quality(sharp, expo, fc, aes) ==
    Frac(5 * sharp + 3 * expo + 2 * face_factor(fc) + 10 * aes, 20)

\* a PhotoMetadata as batch_analyze_photos_v2 holds it when pass 1 is over
PhotoMetadata(fp, dt, lat, lon, emb, sharp, expo, fc, aes) ==
    [ filepath |-> fp,
      datetime_original |-> dt,
      gps_lat |-> lat,
      gps_lon |-> lon,
      face_count |-> fc,
      clip_embedding |-> emb,
      group_id |-> NoneT,
      tech_sharpness_score |-> Frac(sharp, 1),
      tech_exposure_quality |-> expo,
      aesthetic_score |-> aes,
      tech_overall_quality |-> pass1_overall_quality(sharp, expo, fc, aes),
      tech_duplicate_group |-> NoneT,
      tech_is_duplicate |-> FALSE,
      tech_burst_group |-> NoneT,
      tech_burst_position |-> None,
      tech_is_best_in_burst |-> FALSE ]

HasDate(p) == p.datetime_original # None

\* a coordinate was supplied (whatever its value)
HasCoord(p) == p.gps_lat # None /\ p.gps_lon # None

(***************************************************************************)
(* Geometry                                                                *)
(***************************************************************************)
\* great-circle distance in whole metres between coordinates in
\* milli-degrees.  For the coordinates used here (within 0.02 degrees of
\* the equator and of each other) R * c equals, to less than a metre,
\* 111.195 m per milli-degree times the planar distance; 12364 = 111.195^2.
haversine_distance(lat1, lon1, lat2, lon2) ==
    LET dlat == lat2 - lat1
        dlon == lon2 - lon1
    IN  Sqrt((dlat * dlat + dlon * dlon) * 12364)

\* mutant of generate_group_id: the identifier is salted per call (a
\* counter, a clock, a uuid) instead of being derived from the seed alone
generate_group_id_per_call(dt, filepath) == <<"call", calls, filepath>>

\* hashlib.md5(base)[:12] of "YYYYmmdd_HHMM_<stem>" or "unknown_<stem>":
\* the timestamp is cut to the minute; the digest is taken as injective
generate_group_id(dt, filepath) ==
    IF dt # None THEN <<"dt", dt \div 60, filepath>>
    ELSE <<"unknown", filepath>>

(***************************************************************************)
(* PhotoContextAnalyzer.create_groups                                      *)
(***************************************************************************)
PhotoGroup(gid, members, st, et, loc) ==
    [ group_id |-> gid, photos |-> members, start_time |-> st,
      end_time |-> et, location_coords |-> loc ]

\* the photos of a list, by position, in list order
Indices(ph) == [k \in 1..Len(ph) |-> k]

\* [p for p in self.photos if p.datetime_original]
photos_with_date(ph) == SelectSeq(Indices(ph), LAMBDA k : HasDate(ph[k]))

\* [p for p in self.photos if not p.datetime_original]
photos_without_date(ph) == SelectSeq(Indices(ph), LAMBDA k : ~HasDate(ph[k]))

\* insert photo x behind every element whose timestamp is <= its own
RECURSIVE InsertByDate(_, _, _)
InsertByDate(ph, s, x) ==
    IF s = <<>> THEN <<x>>
    ELSE IF ph[Head(s)].datetime_original <= ph[x].datetime_original
         THEN <<Head(s)>> \o InsertByDate(ph, Tail(s), x)
         ELSE <<x>> \o s

\* sorted(seq, key=lambda x: x.datetime_original): ascending and stable
RECURSIVE sorted_by_date(_, _)
sorted_by_date(ph, s) ==
    IF s = <<>> THEN <<>>
    ELSE InsertByDate(ph, sorted_by_date(ph, SubSeq(s, 1, Len(s) - 1)), s[Len(s)])

MinOf(S) == CHOOSE x \in S : \A y \in S : x <= y
MaxOf(S) == CHOOSE x \in S : \A y \in S : x >= y

\* for photo in photos: photo.group_id = group_id
set_group_id(ph, members, gid) ==
    [k \in 1..Len(ph) |->
        IF k \in Range(members) THEN [ph[k] EXCEPT !.group_id = gid] ELSE ph[k]]

\* _create_group: the PhotoGroup built from a non-empty list of photos
create_group(ph, members) ==
    LET times == {ph[k].datetime_original : k \in {m \in Range(members) : HasDate(ph[m])}}
        locations == SelectSeq(members,
                        LAMBDA m : Truthy(ph[m].gps_lat) /\ Truthy(ph[m].gps_lon))
        first == ph[members[1]]
    IN  PhotoGroup(generate_group_id(first.datetime_original, first.filepath),
                   members,
                   IF times # {} THEN MinOf(times) ELSE None,
                   IF times # {} THEN MaxOf(times) ELSE None,
                   IF locations # <<>>
                   THEN <<ph[locations[1]].gps_lat, ph[locations[1]].gps_lon>>
                   ELSE NoneT)

\* (photo.gps_lat, photo.gps_lon) if photo.gps_lat else None
anchor_of(p) == IF Truthy(p.gps_lat) THEN <<p.gps_lat, p.gps_lon>> ELSE NoneT

\* the location test of the dated scan: True unless a distance is computed
location_match(group_location, p) ==
    IF group_location # NoneT /\ Truthy(p.gps_lat) /\ Truthy(p.gps_lon)
    THEN haversine_distance(group_location[1], group_location[2],
                            p.gps_lat, p.gps_lon) < 1000
    ELSE TRUE

\* mutant of admits: the elapsed time is tested against 3 hours
admits_3h(group_start_time, group_location, p) ==
    /\ p.datetime_original - group_start_time <= 10800
    /\ location_match(group_location, p)

\* time_diff <= 2.0 (hours) and location_match
admits(group_start_time, group_location, p) ==
    /\ p.datetime_original - group_start_time <= 7200
    /\ location_match(group_location, p)

\* closing a group: groups.append(self._create_group(current_group))
close_group(st) ==
    LET g == create_group(st.ph, st.current_group)
    IN  [st EXCEPT !.groups = Append(@, g),
                   !.ph = set_group_id(st.ph, st.current_group, g.group_id)]

\* one iteration of "for photo in sorted_photos"
scan_step(st, x) ==
    LET p == st.ph[x]
        seed(s) == [s EXCEPT !.current_group = <<x>>,
                             !.group_start_time = p.datetime_original,
                             !.group_location = anchor_of(p)]
    IN  IF st.current_group = <<>> THEN seed(st)
        ELSE IF admits(st.group_start_time, st.group_location, p)
             THEN [st EXCEPT !.current_group = Append(@, x)]
             ELSE seed(close_group(st))

RECURSIVE dated_scan(_, _)
dated_scan(st, s) ==
    IF s = <<>> THEN st ELSE dated_scan(scan_step(st, Head(s)), Tail(s))

\* the nearest group of an undated photo: scan of "for group in groups",
\* best = [best_group (position, 0 for None), min_dist (None for inf)]
RECURSIVE nearest_group(_, _, _, _)
nearest_group(gs, p, k, best) ==
    IF k > Len(gs) THEN best
    ELSE LET loc == gs[k].location_coords
             dist == haversine_distance(p.gps_lat, p.gps_lon, loc[1], loc[2])
         IN  IF loc # NoneT /\ (best.min_dist = None \/ dist < best.min_dist)
             THEN nearest_group(gs, p, k + 1, [best_group |-> k, min_dist |-> dist])
             ELSE nearest_group(gs, p, k + 1, best)

\* one iteration of "for photo in photos_without_date"
orphan_step(st, x) ==
    LET p == st.ph[x]
        best == nearest_group(st.groups, p, 1, [best_group |-> 0, min_dist |-> None])
    IN  IF Truthy(p.gps_lat) /\ Truthy(p.gps_lon)
           /\ best.best_group # 0 /\ best.min_dist < 1000
        THEN [st EXCEPT
                !.groups[best.best_group].photos = Append(@, x),
                !.ph[x].group_id = st.groups[best.best_group].group_id]
        ELSE st

RECURSIVE orphan_scan(_, _)
orphan_scan(st, s) ==
    IF s = <<>> THEN st ELSE orphan_scan(orphan_step(st, Head(s)), Tail(s))

\* the dated regime of create_groups: [groups, ph] after the scan of the
\* dated photos, the closing of the last group and the orphan pass
create_groups_dated(ph) ==
    LET st0 == [groups |-> <<>>, current_group |-> <<>>,
                group_start_time |-> None, group_location |-> NoneT, ph |-> ph]
        st1 == dated_scan(st0, sorted_by_date(ph, photos_with_date(ph)))
        st2 == IF st1.current_group # <<>> THEN close_group(st1) ELSE st1
    IN  orphan_scan(st2, photos_without_date(ph))

(***************************************************************************)
(* The undated regime: _group_by_location_and_visual                       *)
(***************************************************************************)
\* np.dot of two embeddings (components in tenths, so the product is in
\* hundredths)
Dot(a, b) == a[1] * b[1] + a[2] * b[2]

\* cosine distance 1 - a.b / (|a| |b|) <= eps = 0.3, i.e. cosine >= 0.7
within_eps(a, b) ==
    /\ Dot(a, b) >= 0
    /\ 100 * Dot(a, b) * Dot(a, b) >= 49 * Dot(a, a) * Dot(b, b)

\* number of points a point needs within eps, itself included, to be core
min_samples == 2

neighbours(embs, k) == {j \in 1..Len(embs) : within_eps(embs[k], embs[j])}

is_core(embs, k) == Cardinality(neighbours(embs, k)) >= min_samples

\* the points a cluster grows to from the set S: unlabelled neighbours of
\* its core points, until nothing is added
RECURSIVE expand(_, _, _)
expand(embs, labels, S) ==
    LET more == {v \in 1..Len(embs) :
                    /\ labels[v] = -1
                    /\ \E u \in S : is_core(embs, u) /\ v \in neighbours(embs, u)}
    IN  IF more \subseteq S THEN S ELSE expand(embs, labels, S \cup more)

\* the scan of DBSCAN over the points in index order
RECURSIVE dbscan_scan(_, _, _, _)
dbscan_scan(embs, labels, k, label_num) ==
    IF k > Len(embs) THEN labels
    ELSE IF labels[k] # -1 \/ ~is_core(embs, k)
         THEN dbscan_scan(embs, labels, k + 1, label_num)
         ELSE LET C == expand(embs, labels, {k})
              IN  dbscan_scan(embs,
                              [v \in 1..Len(embs) |->
                                  IF v \in C THEN label_num ELSE labels[v]],
                              k + 1, label_num + 1)

\* DBSCAN(eps=0.3, min_samples=2, metric='cosine').fit(m).labels_
dbscan_labels(embs) == dbscan_scan(embs, [v \in 1..Len(embs) |-> -1], 1, 0)

\* mutant of undated_group_id: noise is not told apart, f"group_{label}"
undated_group_id_plain(label, idx) == <<"group", label>>

\* group_id of the photo at position idx (0-based) of valid_photos
undated_group_id(label, idx) ==
    IF label = -1 THEN <<"group_single", idx>> ELSE <<"group", label>>

\* [p for p in photos if p.clip_embedding is not None]
valid_photos(ph) == SelectSeq(Indices(ph), LAMBDA k : ph[k].clip_embedding # NoneT)

\* the keys of groups_dict in insertion order
RECURSIVE dict_keys(_, _)
dict_keys(ids, keys) ==
    IF ids = <<>> THEN keys
    ELSE dict_keys(Tail(ids),
                   IF Head(ids) \in Range(keys) THEN keys ELSE Append(keys, Head(ids)))

\* [groups, ph] of _group_by_location_and_visual(self.photos)
group_by_location_and_visual(ph) ==
    LET valid == valid_photos(ph)
        embs == [k \in 1..Len(valid) |-> ph[valid[k]].clip_embedding]
        labels == dbscan_labels(embs)
        ids == [k \in 1..Len(valid) |-> undated_group_id(labels[k], k - 1)]
        keys == dict_keys(ids, <<>>)
        members(gid) == SelectSeq(valid, LAMBDA x :
                            \E k \in 1..Len(valid) : valid[k] = x /\ ids[k] = gid)
        idOf(x) == ids[CHOOSE k \in 1..Len(valid) : valid[k] = x]
    IN  IF valid = <<>>
        THEN [groups |-> <<PhotoGroup(<<"group", 0>>, Indices(ph), None, None, NoneT)>>,
              ph |-> set_group_id(ph, Indices(ph), <<"group", 0>>)]
        ELSE [groups |-> [g \in 1..Len(keys) |->
                             PhotoGroup(keys[g], members(keys[g]), None, None, NoneT)],
              ph |-> [k \in 1..Len(ph) |->
                         IF k \in Range(valid)
                         THEN [ph[k] EXCEPT !.group_id = idOf(k)] ELSE ph[k]]]

(***************************************************************************)
(* create_groups, one action per branch of the method                      *)
(***************************************************************************)
\* if not self.photos: return []
create_groups_empty ==
    /\ pc = "groups"
    /\ calls < MaxCalls
    /\ photos = <<>>
    /\ returned' = <<>>
    /\ regime' = "empty"
    /\ calls' = calls + 1
    /\ UNCHANGED <<photos, groups, pc>>
    /\ UNCHANGED burstVars
    /\ UNCHANGED <<dupVars, compared, faceVars, compose_call, align_call, field_call>>

\* if not photos_with_date: return self._group_by_location_and_visual(...)
create_groups_undated ==
    /\ pc = "groups"
    /\ calls < MaxCalls
    /\ photos # <<>>
    /\ photos_with_date(photos) = <<>>
    /\ LET r == group_by_location_and_visual(photos)
       IN  /\ returned' = r.groups
           /\ photos' = r.ph
    /\ regime' = "undated"
    /\ calls' = calls + 1
    /\ UNCHANGED <<groups, pc>>
    /\ UNCHANGED burstVars
    /\ UNCHANGED <<dupVars, compared, faceVars, compose_call, align_call, field_call>>

\* the dated regime, down to self.groups = groups; return groups
create_groups ==
    /\ pc = "groups"
    /\ calls < MaxCalls
    /\ photos_with_date(photos) # <<>>
    /\ LET r == create_groups_dated(photos)
       IN  /\ returned' = r.groups
           /\ groups' = r.groups
           /\ photos' = r.ph
    /\ regime' = "dated"
    /\ calls' = calls + 1
    /\ UNCHANGED pc
    /\ UNCHANGED burstVars
    /\ UNCHANGED <<dupVars, compared, faceVars, compose_call, align_call, field_call>>

(***************************************************************************)
(* Batches                                                                 *)
(***************************************************************************)
Hour == 3600

\* timestamps of the grouping batches: t, t+1h, t+2h, t+3h, or none
GroupTimes == {None, 0, Hour, 2 * Hour, 3 * Hour}

\* coordinates of the grouping batches, <<lat, lon>> in milli-degrees:
\* none, (0, 0), two places 667 m apart, and one more than 1 km from both
GroupCoords == {<<None, None>>, <<0, 0>>, <<6, 6>>, <<6, 0>>, <<18, 6>>}

\* unit embeddings (tenths): E1.E2 = 0.8, E2.E3 = 0.96, E1.E3 = 0.6
E1 == <<10, 0>>
E2 == <<8, 6>>
E3 == <<6, 8>>

\* photos that differ in timestamp and place
DatedInputs(n) ==
    [1..n -> {[dt |-> t, gps |-> c, emb |-> NoneT] : t \in GroupTimes, c \in GroupCoords}]

\* photos that differ in embedding, with or without a timestamp
EmbeddingInputs(n) ==
    [1..n -> {[dt |-> t, gps |-> <<None, None>>, emb |-> e] :
                 t \in {None, 0}, e \in {NoneT, E1, E2, E3}}]

GroupBatch(inp) ==
    [k \in 1..Len(inp) |->
        PhotoMetadata(k, inp[k].dt, inp[k].gps[1], inp[k].gps[2], inp[k].emb, 5, 5, 0, 5)]

InitBurstIdle ==
    /\ photos_sorted = <<>>
    /\ i = 0
    /\ burst_groups = <<>>
    /\ burst_id_counter = 0
    /\ last_scan = NoneT

\* an analyzer holding a batch, before the first create_groups() call
InitGroups ==
    /\ \E n \in 0..NumPhotos :
         \E inp \in DatedInputs(n) \cup EmbeddingInputs(n) : photos = GroupBatch(inp)
    /\ groups = <<>>
    /\ returned = <<>>
    /\ calls = 0
    /\ regime = "none"
    /\ pc = "groups"
    /\ InitBurstIdle
    /\ InitDupIdle /\ InitCompareIdle /\ InitFacesIdle /\ InitComposeIdle
    /\ InitAlignIdle /\ InitFieldIdle

NextGroups == create_groups_empty \/ create_groups_undated \/ create_groups

SpecGroups == InitGroups /\ [][NextGroups]_vars

(***************************************************************************)
(* Properties of create_groups                                             *)
(***************************************************************************)
\* the dated photos in the order the scan visits them
ScanOrder == sorted_by_date(photos, photos_with_date(photos))

\* the returned groups that list photo x
GroupsOf(x) == {g \in 1..Len(returned) : x \in Range(returned[g].photos)}

\* how many times the returned groups list photo x
Listings(x) ==
    SeqSum([g \in 1..Len(returned) |->
               Cardinality({m \in 1..Len(returned[g].photos) : returned[g].photos[m] = x})])

\* distance in metres between the coordinates of two photos
PhotoDistance(p, q) == haversine_distance(p.gps_lat, p.gps_lon, q.gps_lat, q.gps_lon)

\* the rule of the dated regime as the specification states it: within two
\* hours of the group's start and, when both coordinates were supplied,
\* less than 1 km from the group's anchor
MayJoin(seed, p) ==
    /\ p.datetime_original - seed.datetime_original <= 2 * Hour
    /\ (~HasCoord(p) \/ ~HasCoord(seed) \/ PhotoDistance(seed, p) < 1000)

\* C1: in the dated regime a dated photo stays in the group of the photo
\* scanned before it if and only if it is within two hours of that group's
\* start and, when it and the group's seed both have a coordinate (zero
\* included), less than 1 km from the seed; otherwise it seeds a new group.
C1_AdmissionRule ==
    regime = "dated" =>
        \A n \in 2..Len(ScanOrder) :
            LET cur == ScanOrder[n]
                prev == ScanOrder[n - 1]
            IN  \A g \in GroupsOf(prev) :
                    LET seed == returned[g].photos[1]
                    IN  IF MayJoin(photos[seed], photos[cur])
                        THEN cur \in Range(returned[g].photos)
                        ELSE /\ cur \notin Range(returned[g].photos)
                             /\ \E h \in GroupsOf(cur) : returned[h].photos[1] = cur

\* C1 restricted to batches in which no supplied coordinate has a zero
\* latitude or longitude
C1_AdmissionRuleNonZero ==
    (\A k \in 1..Len(photos) : photos[k].gps_lat # 0 /\ photos[k].gps_lon # 0)
        => C1_AdmissionRule

\* the dated members of a returned group, as positions of the scan order
DatedPositions(g) == {n \in 1..Len(ScanOrder) : ScanOrder[n] \in Range(returned[g].photos)}

IsInterval(S) == \A a \in S, b \in S : \A c \in a..b : c \in S

\* the batch of the example: three dated photos at t, t+1h, t+3h, one place
IsThreeAtOnePlace ==
    /\ Len(photos) = 3
    /\ {photos[k].datetime_original : k \in 1..3} = {0, Hour, 3 * Hour}
    /\ \A k \in 1..3 : photos[k].gps_lat = photos[1].gps_lat
                       /\ photos[k].gps_lon = photos[1].gps_lon

TimesOf(g) == {photos[x].datetime_original : x \in Range(returned[g].photos)}

\* C2: in the dated regime every dated photo is listed exactly once by the
\* returned groups, the dated members of a group are consecutive in
\* timestamp order, no member is more than two hours after the group's start
\* timestamp, and photos at t, t+1h, t+3h at one place give the two groups
\* {t, t+1h} and {t+3h}.
C2_DatedPartition ==
    regime = "dated" =>
        /\ \A x \in Range(ScanOrder) : Listings(x) = 1
        /\ \A g \in 1..Len(returned) :
              /\ IsInterval(DatedPositions(g))
              /\ DatedPositions(g) # {}
              /\ \A x \in Range(returned[g].photos) :
                    HasDate(photos[x]) =>
                        /\ photos[x].datetime_original >= returned[g].start_time
                        /\ photos[x].datetime_original - returned[g].start_time <= 2 * Hour
        /\ IsThreeAtOnePlace =>
              /\ Len(returned) = 2
              /\ TimesOf(1) = {0, Hour}
              /\ TimesOf(2) = {3 * Hour}

\* C2 witness: the example batch has been grouped
C2_Witness == regime = "dated" /\ IsThreeAtOnePlace /\ photos[1].gps_lat = 0

\* the first coordinate supplied by a dated member of a returned group
\* (NoneT when no dated member has one)
RepresentativeCoord(g) ==
    LET with == SelectSeq(returned[g].photos,
                          LAMBDA x : HasDate(photos[x]) /\ HasCoord(photos[x]))
    IN  IF with = <<>> THEN NoneT
        ELSE <<photos[with[1]].gps_lat, photos[with[1]].gps_lon>>

\* distance from an undated photo to the representative coordinate of a group
OrphanDistance(p, g) ==
    haversine_distance(p.gps_lat, p.gps_lon,
                       RepresentativeCoord(g)[1], RepresentativeCoord(g)[2])

\* the groups an undated photo can be compared with
Located == {g \in 1..Len(returned) : RepresentativeCoord(g) # NoneT}

\* C3: after the dated regime an undated photo with a coordinate is listed
\* by a group - one group, a nearest one, and it carries that group's
\* identifier - if and only if its nearest group is less than 1 km away; an
\* undated photo with no coordinate or no group that near is listed by no
\* group and has no group identifier.
C3_OrphanRule ==
    regime = "dated" =>
        \A x \in Range(photos_without_date(photos)) :
            LET p == photos[x]
                near == HasCoord(p) /\ \E g \in Located : OrphanDistance(p, g) < 1000
            IN  IF near
                THEN /\ Listings(x) = 1
                     /\ \A g \in GroupsOf(x) :
                           /\ g \in Located
                           /\ \A h \in Located : OrphanDistance(p, g) <= OrphanDistance(p, h)
                           /\ p.group_id = returned[g].group_id
                ELSE Listings(x) = 0 /\ p.group_id = NoneT

\* C3 restricted to batches in which no supplied coordinate has a zero
\* latitude or longitude
C3_OrphanRuleNonZero ==
    (\A k \in 1..Len(photos) : photos[k].gps_lat # 0 /\ photos[k].gps_lon # 0)
        => C3_OrphanRule

\* the photos with an embedding and the labels the clustering gives them
Valid == valid_photos(photos)
Labels == dbscan_labels([k \in 1..Len(Valid) |-> photos[Valid[k]].clip_embedding])
Noise == {Valid[k] : k \in {j \in 1..Len(Valid) : Labels[j] = -1}}

\* C4: create_groups takes the undated regime only when no photo has a
\* timestamp; there every photo labelled noise is the only member of a group
\* of its own, and without any embedding the result is one group that lists
\* the whole batch.
C4_UndatedRegime ==
    /\ regime = "undated" => \A k \in 1..Len(photos) : ~HasDate(photos[k])
    /\ regime = "dated" => \E k \in 1..Len(photos) : HasDate(photos[k])
    /\ regime = "undated" =>
          /\ \A x \in Noise :
                /\ Listings(x) = 1
                /\ \A g \in GroupsOf(x) : returned[g].photos = <<x>>
          /\ Valid = <<>> =>
                /\ Len(returned) = 1
                /\ returned[1].photos = Indices(photos)

\* C4 witness: two noise photos and a photo without embedding were grouped
C4_Witness ==
    /\ regime = "undated"
    /\ Cardinality(Noise) >= 2
    /\ Len(Valid) < Len(photos)

\* C4 witness of the fallback: a batch of several photos without embeddings
C4_WitnessFallback == regime = "undated" /\ Valid = <<>> /\ Len(photos) >= 2

\* C5: a second create_groups() call on the same batch returns the groups of
\* the first call - same members, same identifiers - and leaves every
\* photo's group identifier as the first call set it.
C5_Idempotent ==
    [][(calls = 1 /\ calls' = 2) => (returned' = returned /\ photos' = photos)]_vars

\* C5 witness: the second call returned several groups, one with an orphan
C5_Witness ==
    /\ calls = 2
    /\ regime = "dated"
    /\ Len(returned) >= 2
    /\ \E x \in Range(photos_without_date(photos)) : photos[x].group_id # NoneT

\* C27: in the undated regime every photo of the batch is listed exactly
\* once by the returned groups and carries the identifier of the group that
\* lists it, the photos without an embedding included when other photos of
\* the batch have one.
C27_UndatedPartition ==
    regime = "undated" =>
        \A x \in 1..Len(photos) :
            /\ Listings(x) = 1
            /\ \A g \in GroupsOf(x) : photos[x].group_id = returned[g].group_id

\* the same for the photos the clustering sees: all of them when no photo
\* has an embedding, else the photos with an embedding; the others are
\* listed by no group and have no group identifier
C27_UndatedPartitionOfValid ==
    regime = "undated" =>
        \A x \in 1..Len(photos) :
            IF Valid = <<>> \/ x \in Range(Valid)
            THEN /\ Listings(x) = 1
                 /\ \A g \in GroupsOf(x) : photos[x].group_id = returned[g].group_id
            ELSE Listings(x) = 0 /\ photos[x].group_id = NoneT

\* the stored groups a photo's group identifier resolves to:
\* next((g for g in analyzer.groups if g.group_id == photo.group_id), None)
Resolves(x, g) == groups[g].group_id = photos[x].group_id

\* C28: after create_groups has returned, in the dated and in the undated
\* regime, the analyzer's stored groups are the returned list, and every
\* photo whose group identifier is set resolves to a stored group that lists
\* the photo among its members.
C28_StoredIsReturned ==
    regime \in {"dated", "undated"} =>
        /\ groups = returned
        /\ \A x \in 1..Len(photos) :
              photos[x].group_id # NoneT =>
                 \E g \in 1..Len(groups) :
                    Resolves(x, g) /\ x \in Range(groups[g].photos)

\* the same for the dated regime alone
C28_StoredIsReturnedDated ==
    regime = "dated" =>
        /\ groups = returned
        /\ \A x \in 1..Len(photos) :
              photos[x].group_id # NoneT =>
                 \E g \in 1..Len(groups) :
                    Resolves(x, g) /\ x \in Range(groups[g].photos)

\* the coordinate of the first member of a returned group that has one
\* (NoneT when no member has a coordinate)
FirstCoord(g) ==
    LET with == SelectSeq(returned[g].photos, LAMBDA x : HasCoord(photos[x]))
    IN  IF with = <<>> THEN NoneT
        ELSE <<photos[with[1]].gps_lat, photos[with[1]].gps_lon>>

\* distance in metres from a photo to a coordinate
DistanceTo(p, c) == haversine_distance(p.gps_lat, p.gps_lon, c[1], c[2])

\* C29: in every group of the dated regime every member that has a
\* coordinate, dated or not, is less than 1 km from the group's
\* representative coordinate, the coordinate of its first member that has
\* one - also when the photo that seeded the group has no coordinate.
C29_MembersNearRepresentative ==
    regime = "dated" =>
        \A g \in 1..Len(returned) :
            \A x \in Range(returned[g].photos) :
                HasCoord(photos[x]) => DistanceTo(photos[x], FirstCoord(g)) < 1000

\* C29 restricted to batches in which no supplied coordinate has a zero
\* latitude or longitude
C29_MembersNearRepresentativeNonZero ==
    (\A k \in 1..Len(photos) : photos[k].gps_lat # 0 /\ photos[k].gps_lon # 0)
        => C29_MembersNearRepresentative

\* the same for the groups whose seed has a coordinate without a zero: the
\* members whose coordinate has no zero are less than 1 km from the seed's
\* coordinate, which is the coordinate the group stores
C29_MembersNearSeed ==
    regime = "dated" =>
        \A g \in 1..Len(returned) :
            LET seed == photos[returned[g].photos[1]]
            IN  (Truthy(seed.gps_lat) /\ Truthy(seed.gps_lon)) =>
                    /\ returned[g].location_coords = <<seed.gps_lat, seed.gps_lon>>
                    /\ \A x \in Range(returned[g].photos) :
                          (Truthy(photos[x].gps_lat) /\ Truthy(photos[x].gps_lon)) =>
                              DistanceTo(photos[x], returned[g].location_coords) < 1000

(***************************************************************************)
(* batch_analyze_photos_v2, phase 2.5b: burst detection                    *)
(***************************************************************************)
\* mutant of burst_time_diff: the gap is measured from the seed, burst[0]
burst_time_diff_seed(ph, burst, x) ==
    ph[x].datetime_original - ph[burst[1]].datetime_original

\* (photos_sorted[j].datetime_original - burst[-1].datetime_original)
\*     .total_seconds()
burst_time_diff(ph, burst, x) ==
    ph[x].datetime_original - ph[burst[Len(burst)]].datetime_original

\* both embeddings exist, so that the similarity is looked at
both_embedded(ph, burst, x) ==
    ph[burst[Len(burst)]].clip_embedding # NoneT /\ ph[x].clip_embedding # NoneT

\* sim > 0.75, with sim = np.dot(burst[-1].clip_embedding, ...)
similar(ph, burst, x) ==
    Dot(ph[burst[Len(burst)]].clip_embedding, ph[x].clip_embedding) > 75

\* the inner loop "while j < len(photos_sorted)": [burst, j] when it is left
RECURSIVE burst_inner(_, _, _, _)
burst_inner(ph, sorted, burst, j) ==
    IF j > Len(sorted) THEN [burst |-> burst, j |-> j]
    ELSE IF burst_time_diff(ph, burst, sorted[j]) > 5
         THEN [burst |-> burst, j |-> j]
         ELSE IF both_embedded(ph, burst, sorted[j])
              THEN IF similar(ph, burst, sorted[j])
                   THEN burst_inner(ph, sorted, Append(burst, sorted[j]), j + 1)
                   ELSE [burst |-> burst, j |-> j]
              ELSE burst_inner(ph, sorted, burst, j + 1)

\* the scan of max(): a later member replaces the best so far only when
\* its key is strictly greater
RECURSIVE best_of(_, _, _)
best_of(ph, burst, best) ==
    IF burst = <<>> THEN best
    ELSE best_of(ph, Tail(burst),
                 IF FracLess(ph[best].tech_overall_quality,
                             ph[Head(burst)].tech_overall_quality)
                 THEN Head(burst) ELSE best)

\* mutant of best_photo: min(...) instead of max(...)
RECURSIVE worst_of(_, _, _)
worst_of(ph, burst, worst) ==
    IF burst = <<>> THEN worst
    ELSE worst_of(ph, Tail(burst),
                  IF FracLess(ph[Head(burst)].tech_overall_quality,
                              ph[worst].tech_overall_quality)
                  THEN Head(burst) ELSE worst)

best_photo_min(ph, burst) == worst_of(ph, Tail(burst), Head(burst))

\* max(burst, key=lambda p: p.tech_overall_quality): the first of the
\* members that no member beats
best_photo(ph, burst) == best_of(ph, Tail(burst), Head(burst))

\* p == best_photo, for photos of distinct files
is_best(ph, x, best) == x = best

\* f"burst_{burst_id_counter:04d}"
burst_id_of(counter) == <<"burst", counter>>

\* for pos, p in enumerate(burst, 1): tag p
tag_burst(ph, burst, bid) ==
    LET best == best_photo(ph, burst)
        pos(x) == CHOOSE k \in 1..Len(burst) : burst[k] = x
    IN  [k \in 1..Len(ph) |->
            IF k \in Range(burst)
            THEN [ph[k] EXCEPT !.tech_burst_group = bid,
                               !.tech_burst_position = pos(k),
                               !.tech_is_best_in_burst = is_best(ph, k, best)]
            ELSE ph[k]]

\* mutant of is_burst: a run of one photo is reported too
is_burst_any(burst) == Len(burst) >= 1

\* len(burst) >= 2
is_burst(burst) == Len(burst) >= 2

\* the run scanned from the seed at position i
scan_from_seed == burst_inner(photos, photos_sorted, <<photos_sorted[i]>>, i + 1)

\* one iteration of "while i < len(photos_sorted)" that reports a burst
burst_report ==
    /\ pc = "burst"
    /\ i <= Len(photos_sorted)
    /\ LET r == scan_from_seed
           bid == burst_id_of(burst_id_counter)
       IN  /\ is_burst(r.burst)
           /\ burst_id_counter' = burst_id_counter + 1
           /\ burst_groups' = Append(burst_groups, [burst_id |-> bid, photos |-> r.burst])
           /\ photos' = tag_burst(photos, r.burst, bid)
           /\ i' = r.j
           /\ last_scan' = [seed |-> i, burst |-> r.burst, j |-> r.j]
    /\ UNCHANGED <<pc, photos_sorted>>
    /\ UNCHANGED groupVars
    /\ UNCHANGED <<dupVars, compared, faceVars, compose_call, align_call, field_call>>

\* one iteration that finds no burst at the seed: i += 1
burst_discard ==
    /\ pc = "burst"
    /\ i <= Len(photos_sorted)
    /\ LET r == scan_from_seed
       IN  /\ ~is_burst(r.burst)
           /\ i' = i + 1
           /\ last_scan' = [seed |-> i, burst |-> r.burst, j |-> r.j]
    /\ UNCHANGED <<pc, photos_sorted, photos, burst_groups, burst_id_counter>>
    /\ UNCHANGED groupVars
    /\ UNCHANGED <<dupVars, compared, faceVars, compose_call, align_call, field_call>>

(***************************************************************************)
(* batch_analyze_photos_v2, phase 2.5c: score normalisation                *)
(***************************************************************************)
RECURSIVE InsertInt(_, _)
InsertInt(s, x) ==
    IF s = <<>> THEN <<x>>
    ELSE IF Head(s) <= x THEN <<Head(s)>> \o InsertInt(Tail(s), x) ELSE <<x>> \o s

RECURSIVE SortInts(_)
SortInts(s) == IF s = <<>> THEN <<>> ELSE InsertInt(SortInts(Tail(s)), Head(s))

\* 4 * np.percentile(scores, q) for q = 25 * quarters (linear interpolation
\* between the two nearest ranks); scores are whole tenths
percentile_x4(scores, quarters) ==
    LET s == SortInts(scores)
        pos == quarters * (Len(s) - 1)
        lo == pos \div 4 + 1
        r == pos % 4
    IN  IF r = 0 THEN 4 * s[lo] ELSE 4 * s[lo] + r * (s[lo + 1] - s[lo])

\* (score - p25) / (p75 - p25) without the clamp to [0, 1]
normalized_sharpness_unclamped(score, p25x4, p75x4) ==
    Frac(10 * (4 * score.n - p25x4 * score.d), (p75x4 - p25x4) * score.d)

\* max(0.0, min(1.0, (score - p25) / (p75 - p25))), in tenths
normalized_sharpness(score, p25x4, p75x4) ==
    LET num == 4 * score.n - p25x4 * score.d
        den == (p75x4 - p25x4) * score.d
    IN  IF num <= 0 THEN Frac(0, 1)
        ELSE IF num >= den THEN Frac(10, 1)
        ELSE Frac(10 * num, den)

\* 0.5 * sharpness + 0.3 * exposure + 0.2 * (1.0 if faces else 0.5)
recalculated_quality(sharp, expo, fc) ==
    Frac(5 * sharp.n + (3 * expo + 2 * face_factor(fc)) * sharp.d, 10 * sharp.d)

\* the photos after "for photo in analyzer.photos" of phase 2.5c
normalized_photos(ph) ==
    LET scores == [k \in 1..Len(ph) |-> ph[k].tech_sharpness_score.n]
        p25 == percentile_x4(scores, 1)
        p75 == percentile_x4(scores, 3)
    IN  [k \in 1..Len(ph) |->
            IF p75 > p25
            THEN LET sh == normalized_sharpness(ph[k].tech_sharpness_score, p25, p75)
                 IN  [ph[k] EXCEPT
                        !.tech_sharpness_score = sh,
                        !.tech_overall_quality =
                            recalculated_quality(sh, ph[k].tech_exposure_quality,
                                                 ph[k].face_count)]
            ELSE ph[k]]

\* phase 2.5c, entered when the burst scan has left its while loop
normalize_scores ==
    /\ pc = "burst"
    /\ i > Len(photos_sorted)
    /\ photos' = (IF photos # <<>> THEN normalized_photos(photos) ELSE photos)
    /\ pc' = "done"
    /\ UNCHANGED burstVars
    /\ UNCHANGED groupVars
    /\ UNCHANGED <<dupVars, compared, faceVars, compose_call, align_call, field_call>>

\* timestamps of the burst batches, in seconds: t, t+2, t+4, t+9, or none
BurstTimes == {None, 0, 2, 4, 9}

\* raw (sharpness, aesthetic) scores of the burst batches, in tenths
BurstScores == {<<2, 9>>, <<8, 1>>}

BurstInputs(n) ==
    [1..n -> {[dt |-> t, emb |-> e, q |-> q] :
                 t \in BurstTimes, e \in {NoneT, E1, E3}, q \in BurstScores}]

BurstBatch(inp) ==
    [k \in 1..Len(inp) |->
        PhotoMetadata(k, inp[k].dt, None, None, inp[k].emb, inp[k].q[1], 5, 0, inp[k].q[2])]

\* batch_analyze_photos_v2 when pass 1 is over and the burst scan starts
InitBursts ==
    /\ \E n \in 1..NumPhotos : \E inp \in BurstInputs(n) : photos = BurstBatch(inp)
    /\ photos_sorted = sorted_by_date(photos, photos_with_date(photos))
    /\ i = 1
    /\ burst_groups = <<>>
    /\ burst_id_counter = 0
    /\ last_scan = NoneT
    /\ pc = "burst"
    /\ groups = <<>>
    /\ returned = <<>>
    /\ calls = 0
    /\ regime = "none"
    /\ InitDupIdle /\ InitCompareIdle /\ InitFacesIdle /\ InitComposeIdle
    /\ InitAlignIdle /\ InitFieldIdle

NextBursts == burst_report \/ burst_discard \/ normalize_scores

SpecBursts == InitBursts /\ [][NextBursts]_vars

(***************************************************************************)
(* Properties of the burst scan                                            *)
(***************************************************************************)
ScanOver == (pc = "burst" /\ i > Len(photos_sorted)) \/ pc = "done"

Gap(x, y) == photos[y].datetime_original - photos[x].datetime_original

\* C6: when the scan is over, a dated photo at most 5 s after the photo
\* before it, where one of the two has no embedding, is a member of the run
\* of that photo: same burst identifier, and an ordinal position.
C6_AdmittedOnTimeAlone ==
    ScanOver =>
        \A n \in 2..Len(photos_sorted) :
            LET x == photos_sorted[n - 1]
                y == photos_sorted[n]
            IN  (/\ Gap(x, y) <= 5
                 /\ (photos[x].clip_embedding = NoneT \/ photos[y].clip_embedding = NoneT))
                => /\ photos[y].tech_burst_group # NoneT
                   /\ photos[y].tech_burst_group = photos[x].tech_burst_group
                   /\ photos[y].tech_burst_position # None

\* item y ends a run whose last admitted member is x
Closes(x, y) ==
    \/ Gap(x, y) > 5
    \/ /\ photos[x].clip_embedding # NoneT
       /\ photos[y].clip_embedding # NoneT
       /\ Dot(photos[x].clip_embedding, photos[y].clip_embedding) <= 75

\* the last member of run b scanned before position q of the scan order
LastBefore(b, q) ==
    b[MaxOf({k \in 1..Len(b) : \E n \in 1..(q - 1) : photos_sorted[n] = b[k]})]

IsThreeShotBurst ==
    /\ Len(photos) = 3
    /\ {photos[k].datetime_original : k \in 1..3} = {0, 2, 4}
    /\ \A k \in 1..3 : photos[k].clip_embedding # NoneT
    /\ \A k \in 1..3, m \in 1..3 :
          Dot(photos[k].clip_embedding, photos[m].clip_embedding) > 75

Flagged(b) == {k \in 1..Len(b) : photos[b[k]].tech_is_best_in_burst}

\* C8: every reported run has at least 2 members, which carry the run's
\* identifier and the positions 1..n in ascending timestamp order, and
\* exactly one of them is flagged best; photos at t, t+2 s, t+4 s that are
\* pairwise similar end up as one run with the positions 1, 2, 3.
C8_RunShape ==
    /\ \A g \in 1..Len(burst_groups) :
          LET b == burst_groups[g].photos
          IN  /\ Len(b) >= 2
              /\ \A k \in 1..Len(b) :
                    /\ photos[b[k]].tech_burst_position = k
                    /\ photos[b[k]].tech_burst_group = burst_groups[g].burst_id
              /\ \A k \in 2..Len(b) : Gap(b[k - 1], b[k]) >= 0
              /\ \A k \in 1..Len(b), m \in 1..Len(b) : b[k] = b[m] => k = m
              /\ Cardinality(Flagged(b)) = 1
    /\ (ScanOver /\ IsThreeShotBurst) =>
          /\ Len(burst_groups) = 1
          /\ burst_groups[1].photos = photos_sorted
          /\ \A k \in 1..3 : photos[photos_sorted[k]].datetime_original = 2 * (k - 1)
                             /\ photos[photos_sorted[k]].tech_burst_position = k

\* C8 witness: the example batch has been scanned
C8_Witness == ScanOver /\ IsThreeShotBurst

Quality(x) == photos[x].tech_overall_quality

\* C9: when the burst scan has tagged a run, the flagged member has the
\* highest composite quality score of the run, is the earliest member with
\* that score, and is the only member flagged.
C9_BestIsMax ==
    pc = "burst" =>
        \A g \in 1..Len(burst_groups) :
            LET b == burst_groups[g].photos
            IN  \A m \in Flagged(b) :
                   /\ Flagged(b) = {m}
                   /\ \A k \in 1..Len(b) : ~FracLess(Quality(b[m]), Quality(b[k]))
                   /\ \A k \in 1..(m - 1) : FracLess(Quality(b[k]), Quality(b[m]))

\* C9 witness: a run whose best photo is not its first, and one whose first
\* two members tie
C9_Witness ==
    /\ pc = "burst"
    /\ \E g \in 1..Len(burst_groups) :
          LET b == burst_groups[g].photos
          IN  /\ Len(b) = 3
              /\ FracEq(Quality(b[1]), Quality(b[2]))
              /\ Flagged(b) = {3}

\* C10: in the final result the flagged member of every run has the highest
\* composite quality score of the run, the scores being the final ones.
C10_BestIsMaxFinally ==
    pc = "done" =>
        \A g \in 1..Len(burst_groups) :
            LET b == burst_groups[g].photos
            IN  \A m \in Flagged(b) :
                   \A k \in 1..Len(b) : ~FracLess(Quality(b[m]), Quality(b[k]))


\* one outer step of the burst scan
ScanStep == pc = "burst" /\ pc' = "burst"

\* the runs reported after the step are pairwise disjoint, and none lists a
\* photo twice
RunsDisjoint ==
    /\ \A g, h \in 1..Len(burst_groups') :
          g # h => Range(burst_groups'[g].photos) \cap Range(burst_groups'[h].photos) = {}
    /\ \A g \in 1..Len(burst_groups') :
          Cardinality(Range(burst_groups'[g].photos)) = Len(burst_groups'[g].photos)

C30_ScanTerminates ==
    [][ScanStep =>
          /\ i' > i
          /\ i' <= Len(photos_sorted) + 1
          /\ RunsDisjoint
          /\ \A n \in (i + 1)..(i' - 1) :
                \/ \E g \in 1..Len(burst_groups') :
                      photos_sorted[n] \in Range(burst_groups'[g].photos)
                \/ photos[photos_sorted[n]].clip_embedding = NoneT
                \/ \E m \in i..(n - 1) :
                      photos[photos_sorted[m]].clip_embedding = NoneT]_vars


(***************************************************************************)
(* Perceptual hashes and their Hamming distance                            *)
(***************************************************************************)
\* A hash is a string of hexadecimal digits, held as the sequence of the
\* digits' values (0..15), most significant first.
HashWidth == 16         \* f"{hash_int:016x}"
DuplicateThreshold == 10

\* f"{hash_int:016x}" for the integer whose hex digits are low: padded with
\* zeros to 16 digits, and left as it is when it has more
hex16(low) ==
    IF Len(low) >= HashWidth THEN low
    ELSE [k \in 1..HashWidth |->
            IF k <= HashWidth - Len(low) THEN 0 ELSE low[k - (HashWidth - Len(low))]]

Bit(d, b) == (d \div (2 ^ b)) % 2

\* int(h, 16): a non-negative integer, held as the set of the positions of
\* its one bits (leading zero digits contribute nothing)
int16(h) ==
    {4 * (Len(h) - x[1]) + x[2] :
        x \in {y \in (1..Len(h)) \X (0..3) : Bit(h[y[1]], y[2]) = 1}}

\* a ^ b
xor(a, b) == (a \ b) \cup (b \ a)

\* bin(x).count('1')
count_ones(x) == Cardinality(x)

\* bits of a that b lacks: a distance that depends on the order of its arguments
hamming_one_sided(hash1, hash2) == count_ones(int16(hash1) \ int16(hash2))

\* hamming = bin(int(hash1, 16) ^ int(hash2, 16)).count('1')
hamming(hash1, hash2) == count_ones(xor(int16(hash1), int16(hash2)))

\* a threshold that admits the distance 10 itself
near_duplicate_inclusive(hash1, hash2) == hamming(hash1, hash2) <= DuplicateThreshold

\* if hamming < 10
near_duplicate(hash1, hash2) == hamming(hash1, hash2) < DuplicateThreshold

(***************************************************************************)
(* batch_analyze_photos_v2, phase 2.5b: duplicate detection                *)
(***************************************************************************)
NumDupPhotos == 4       \* largest batch of the duplicate pass

\* the inner loop over analyzer.photos[i+1:], from position j on
RECURSIVE dup_inner(_, _, _, _, _, _)
dup_inner(ph, hs, seed, j, group, proc) ==
    IF j > Len(ph) THEN [group |-> group, processed |-> proc]
    ELSE IF ph[j].filepath \in proc THEN dup_inner(ph, hs, seed, j + 1, group, proc)
    ELSE IF near_duplicate(hs[ph[seed].filepath], hs[ph[j].filepath])
         THEN dup_inner(ph, hs, seed, j + 1, Append(group, ph[j].filepath),
                        proc \cup {ph[j].filepath})
         ELSE dup_inner(ph, hs, seed, j + 1, group, proc)

\* group = [photo1.filepath] and the inner loop
dup_group(ph, hs, seed, proc) ==
    dup_inner(ph, hs, seed, seed + 1, <<ph[seed].filepath>>, proc)

\* hash1[:8]  (the "dup_" in front of it is the same for every group)
dup_group_id(hash1) ==
    SubSeq(hash1, 1, IF Len(hash1) < 8 THEN Len(hash1) ELSE 8)

\* duplicate_groups[group_id] = group : a dict keeps the place of a key it
\* already holds and replaces its value
dict_set(d, key, value) ==
    IF \E k \in 1..Len(d) : d[k].group_id = key
    THEN [k \in 1..Len(d) |->
            IF d[k].group_id = key THEN [group_id |-> key, members |-> value] ELSE d[k]]
    ELSE Append(d, [group_id |-> key, members |-> value])

\* p.tech_duplicate_group = group_id; p.tech_is_duplicate = True
tag_duplicates(ph, group, group_id) ==
    [k \in 1..Len(ph) |->
        IF ph[k].filepath \in Range(group)
        THEN [ph[k] EXCEPT !.tech_duplicate_group = group_id, !.tech_is_duplicate = TRUE]
        ELSE ph[k]]

\* one outer iteration: photo1.filepath in processed, continue
dup_skip ==
    /\ pc = "dups"
    /\ dup_i <= Len(photos)
    /\ photos[dup_i].filepath \in processed
    /\ dup_i' = dup_i + 1
    /\ last_dup' = [seed |-> dup_i, kind |-> "skipped", group |-> <<>>,
                    before |-> processed]
    /\ UNCHANGED <<photos, pc, hashes, duplicate_groups, processed>>
    /\ UNCHANGED <<groupVars, burstVars, compared, faceVars, compose_call, align_call, field_call>>

\* one outer iteration: the seed collects a group of more than one photo
dup_report ==
    /\ pc = "dups"
    /\ dup_i <= Len(photos)
    /\ photos[dup_i].filepath \notin processed
    /\ LET r == dup_group(photos, hashes, dup_i, processed)
           group_id == dup_group_id(hashes[photos[dup_i].filepath])
       IN  /\ Len(r.group) > 1
           /\ duplicate_groups' = dict_set(duplicate_groups, group_id, r.group)
           /\ photos' = tag_duplicates(photos, r.group, group_id)
           /\ processed' = r.processed
           /\ last_dup' = [seed |-> dup_i, kind |-> "seed", group |-> r.group,
                           before |-> processed]
    /\ dup_i' = dup_i + 1
    /\ UNCHANGED <<pc, hashes>>
    /\ UNCHANGED <<groupVars, burstVars, compared, faceVars, compose_call, align_call, field_call>>

\* one outer iteration: the seed stays alone, nothing is recorded
dup_alone ==
    /\ pc = "dups"
    /\ dup_i <= Len(photos)
    /\ photos[dup_i].filepath \notin processed
    /\ LET r == dup_group(photos, hashes, dup_i, processed)
       IN  /\ Len(r.group) = 1
           /\ processed' = r.processed
           /\ last_dup' = [seed |-> dup_i, kind |-> "seed", group |-> r.group,
                           before |-> processed]
    /\ dup_i' = dup_i + 1
    /\ UNCHANGED <<photos, pc, hashes, duplicate_groups>>
    /\ UNCHANGED <<groupVars, burstVars, compared, faceVars, compose_call, align_call, field_call>>

\* hashes of the duplicate batches: an image, and images whose hashes
\* differ from it in 3, 9, 9 (other bits), 10, 20 and 12 (leading) bits
HashA == hex16(<<0>>)
Hash3 == hex16(<<7>>)
Hash9 == hex16(<<1, 15, 15>>)
Hash9High == hex16(<<1, 15, 15, 0, 0, 0>>)
Hash10 == hex16(<<3, 15, 15>>)
Hash20 == hex16(<<15, 15, 15, 15, 15>>)
HashLead == hex16(<<15, 15, 15, 0, 0, 0, 0, 0, 0, 0, 0, 0, 0, 0, 0, 0>>)

DupHashes == {HashA, Hash3, Hash9, Hash9High, Hash10, Hash20, HashLead}

DupBatch(n) ==
    [k \in 1..n |-> PhotoMetadata(k, None, None, None, NoneT, 5, 5, 0, 5)]

\* batch_analyze_photos_v2 when the hashes are computed and the scan starts
InitDups ==
    /\ \E n \in 0..NumDupPhotos :
         /\ photos = DupBatch(n)
         /\ hashes \in [1..n -> DupHashes]
    /\ duplicate_groups = <<>>
    /\ processed = {}
    /\ dup_i = 1
    /\ last_dup = NoneT
    /\ pc = "dups"
    /\ groups = <<>>
    /\ returned = <<>>
    /\ calls = 0
    /\ regime = "none"
    /\ InitBurstIdle /\ InitCompareIdle /\ InitFacesIdle /\ InitComposeIdle
    /\ InitAlignIdle /\ InitFieldIdle

NextDups == dup_skip \/ dup_report \/ dup_alone

SpecDups == InitDups /\ [][NextDups]_vars

(***************************************************************************)
(* Properties of the duplicate pass                                        *)
(***************************************************************************)
DupPassOver == pc = "dups" /\ dup_i > Len(photos)

HashOf(k) == hashes[photos[k].filepath]

\* the photos after the seed that no earlier seed has absorbed and whose
\* hash is fewer than 10 bits away from the seed's
NearSeed(seed, before) ==
    {k \in (seed + 1)..Len(photos) :
        /\ photos[k].filepath \notin before
        /\ hamming(HashOf(seed), HashOf(k)) < DuplicateThreshold}

Members(c) == Range(c.members)

InNoCluster(fp) == \A k \in 1..Len(duplicate_groups) : fp \notin Members(duplicate_groups[k])

\* the batch of the example: A, B 3 bits from A, C 20 bits from A
IsExampleBatch == Len(photos) = 3 /\ hashes = <<HashA, Hash3, Hash20>>

\* C12: every reported duplicate cluster has at least 2 members, no photo is
\* a member of two clusters, an absorbed photo (a member after the first) is
\* never the seed (first member) of a cluster, and a photo that is in no
\* reported cluster carries no duplicate tag; for hashes A, B, C with B 3
\* bits and C 20 bits from A the result is the one cluster {A, B}, C untagged.
C12_ClusterInvariants ==
    pc = "dups" =>
        /\ \A k \in 1..Len(duplicate_groups) :
              /\ Len(duplicate_groups[k].members) >= 2
              /\ Cardinality(Members(duplicate_groups[k])) = Len(duplicate_groups[k].members)
        /\ \A k, l \in 1..Len(duplicate_groups) :
              k # l => Members(duplicate_groups[k]) \cap Members(duplicate_groups[l]) = {}
        /\ \A k, l \in 1..Len(duplicate_groups) :
              \A m \in 2..Len(duplicate_groups[k].members) :
                 duplicate_groups[k].members[m] # duplicate_groups[l].members[1]
        /\ \A k \in 1..Len(photos) :
              InNoCluster(photos[k].filepath) =>
                 /\ photos[k].tech_duplicate_group = NoneT
                 /\ ~photos[k].tech_is_duplicate
        /\ (IsExampleBatch /\ DupPassOver) =>
              /\ Len(duplicate_groups) = 1
              /\ duplicate_groups[1].members = <<1, 2>>
              /\ photos[3].tech_duplicate_group = NoneT
              /\ ~photos[3].tech_is_duplicate

\* the same, for every photo whose tag names a cluster that is still reported
\* under that identifier with the photo in it, and for untagged photos
C12_ClusterInvariantsOfListed ==
    pc = "dups" =>
        /\ \A k \in 1..Len(duplicate_groups) :
              /\ Len(duplicate_groups[k].members) >= 2
              /\ Cardinality(Members(duplicate_groups[k])) = Len(duplicate_groups[k].members)
        /\ \A k, l \in 1..Len(duplicate_groups) :
              k # l => Members(duplicate_groups[k]) \cap Members(duplicate_groups[l]) = {}
        /\ \A k \in 1..Len(photos) :
              (InNoCluster(photos[k].filepath) /\ photos[k].tech_is_duplicate) =>
                 \E l \in 1..Len(duplicate_groups) :
                    duplicate_groups[l].group_id = photos[k].tech_duplicate_group


\* C26: after the duplicate pass the cluster mapping and the tags of the
\* photos agree: the identifiers of the mapping are pairwise distinct and
\* two photos tagged with the same identifier are members of one cluster; a
\* photo is tagged with identifier X exactly when the mapping lists it among
\* the members of X; and a photo is flagged as duplicate exactly when it
\* carries a cluster identifier.
C26_MappingAndTagsAgree ==
    DupPassOver =>
        /\ \A k, l \in 1..Len(duplicate_groups) :
              k # l => duplicate_groups[k].group_id # duplicate_groups[l].group_id
        /\ \A p \in 1..Len(photos) :
              /\ \A k \in 1..Len(duplicate_groups) :
                    (photos[p].tech_duplicate_group = duplicate_groups[k].group_id)
                       <=> (photos[p].filepath \in Members(duplicate_groups[k]))
              /\ photos[p].tech_duplicate_group # NoneT =>
                    \E k \in 1..Len(duplicate_groups) :
                       duplicate_groups[k].group_id = photos[p].tech_duplicate_group
              /\ photos[p].tech_is_duplicate <=> (photos[p].tech_duplicate_group # NoneT)

\* the part of it that every pass keeps: the identifiers of the mapping are
\* pairwise distinct, every photo the mapping lists under X is tagged X,
\* every tag names an identifier of the mapping, and the flag goes with the tag
C26_ListedAreTagged ==
    DupPassOver =>
        /\ \A k, l \in 1..Len(duplicate_groups) :
              k # l => duplicate_groups[k].group_id # duplicate_groups[l].group_id
        /\ \A p \in 1..Len(photos) :
              /\ \A k \in 1..Len(duplicate_groups) :
                    (photos[p].filepath \in Members(duplicate_groups[k]))
                       => (photos[p].tech_duplicate_group = duplicate_groups[k].group_id)
              /\ photos[p].tech_duplicate_group # NoneT =>
                    \E k \in 1..Len(duplicate_groups) :
                       duplicate_groups[k].group_id = photos[p].tech_duplicate_group
              /\ photos[p].tech_is_duplicate <=> (photos[p].tech_duplicate_group # NoneT)


(***************************************************************************)
(* cmd_compare                                                             *)
(***************************************************************************)
\* hashes of more than 64 bits, as compute_perceptual_hash returns them for
\* a hash_size above 8: bit 64 alone, and bit 64 with the three lowest bits
HashWide == hex16(<<1, 0, 0, 0, 0, 0, 0, 0, 0, 0, 0, 0, 0, 0, 0, 0, 0>>)
HashWide3 == hex16(<<1, 0, 0, 0, 0, 0, 0, 0, 0, 0, 0, 0, 0, 0, 0, 0, 7>>)
HashWider == hex16(<<1, 0, 0, 0, 0, 0, 0, 0, 0, 0, 0, 0, 0, 0, 0, 0, 0, 0>>)

CompareHashes == DupHashes \cup {HashWide, HashWide3, HashWider}

\* the comparison of the two hashes and the two lines it logs
cmd_compare ==
    /\ pc = "compare"
    /\ compared.status = "called"
    /\ compared' = [compared EXCEPT
                      !.status = "reported",
                      !.hamming = hamming(compared.hash_a, compared.hash_b),
                      !.duplicate = IF near_duplicate(compared.hash_a, compared.hash_b)
                                    THEN "YES" ELSE "NO"]
    /\ UNCHANGED <<photos, pc>>
    /\ UNCHANGED <<groupVars, burstVars, dupVars, faceVars, compose_call, align_call, field_call>>

\* cmd_compare when both hashes are computed
InitCompare ==
    /\ \E a, b \in CompareHashes :
         compared = [hash_a |-> a, hash_b |-> b, status |-> "called",
                     hamming |-> None, duplicate |-> ""]
    /\ pc = "compare"
    /\ photos = <<>>
    /\ groups = <<>>
    /\ returned = <<>>
    /\ calls = 0
    /\ regime = "none"
    /\ InitBurstIdle /\ InitDupIdle /\ InitFacesIdle /\ InitComposeIdle
    /\ InitAlignIdle /\ InitFieldIdle

NextCompare == cmd_compare

SpecCompare == InitCompare /\ [][NextCompare]_vars

(***************************************************************************)
(* Properties of the Hamming distance                                      *)
(***************************************************************************)
Compared == pc = "compare" /\ compared.status = "reported"

C14_SymmetricZeroIffSame ==
    Compared =>
        /\ compared.hamming = hamming(compared.hash_b, compared.hash_a)
        /\ (compared.hamming = 0) <=> (compared.hash_a = compared.hash_b)

\* two different codes were compared and a distance above zero was reported
C14_Witness ==
    /\ Compared
    /\ compared.hash_a # compared.hash_b
    /\ compared.hamming = 18
    /\ int16(compared.hash_a) # {}
    /\ int16(compared.hash_b) # {}


(***************************************************************************)
(* TerminalTools.recognize_faces_in_batch                                  *)
(***************************************************************************)
\* photo_path.name: the batch is the files of one directory, so a photo's
\* filename identifies it as its filepath does
filename(p) == p.filepath

\* all_embeddings, from photo k on
RECURSIVE all_embeddings(_, _)
all_embeddings(fs, k) ==
    IF k > Len(fs) THEN <<>> ELSE fs[k] \o all_embeddings(fs, k + 1)

\* embedding_to_photo: (photo_idx, face_idx) of every embedding, from photo k on
RECURSIVE embedding_to_photo(_, _)
embedding_to_photo(fs, k) ==
    IF k > Len(fs) THEN <<>>
    ELSE [f \in 1..Len(fs[k]) |-> <<k, f>>] \o embedding_to_photo(fs, k + 1)

\* a row divided by max(norm, 1e-10), in tenths
unit_row(v) ==
    LET norm == Sqrt(Dot(v, v))
    IN  IF norm = 0 THEN v ELSE <<(10 * v[1]) \div norm, (10 * v[2]) \div norm>>

embeddings_matrix(embs) == [k \in 1..Len(embs) |-> unit_row(embs[k])]

\* euclidean distance <= eps = 0.6 between rows in tenths: squared, <= 36
face_within_eps(a, b) ==
    (a[1] - b[1]) * (a[1] - b[1]) + (a[2] - b[2]) * (a[2] - b[2]) <= 36

face_min_samples == 3

face_neighbours(m, k) == {j \in 1..Len(m) : face_within_eps(m[k], m[j])}

face_is_core(m, k) == Cardinality(face_neighbours(m, k)) >= face_min_samples

RECURSIVE face_expand(_, _, _)
face_expand(m, labels, S) ==
    LET more == {v \in 1..Len(m) :
                    /\ labels[v] = -1
                    /\ \E u \in S : face_is_core(m, u) /\ v \in face_neighbours(m, u)}
    IN  IF more \subseteq S THEN S ELSE face_expand(m, labels, S \cup more)

RECURSIVE face_dbscan_scan(_, _, _, _)
face_dbscan_scan(m, labels, k, label_num) ==
    IF k > Len(m) THEN labels
    ELSE IF labels[k] # -1 \/ ~face_is_core(m, k)
         THEN face_dbscan_scan(m, labels, k + 1, label_num)
         ELSE LET C == face_expand(m, labels, {k})
              IN  face_dbscan_scan(m,
                                   [v \in 1..Len(m) |->
                                       IF v \in C THEN label_num ELSE labels[v]],
                                   k + 1, label_num + 1)

\* DBSCAN(eps=0.6, min_samples=3, metric='euclidean').fit(m).labels_
face_dbscan_labels(m) == face_dbscan_scan(m, [v \in 1..Len(m) |-> -1], 1, 0)

\* person_clusters after the loop over labels_: person -> set of filenames
\* (a person is held as its label; person_id = f"person_{label}")
person_clusters_of(ph, labels, e2p) ==
    [l \in {labels[x] : x \in {y \in 1..Len(labels) : labels[y] # -1}} |->
        {filename(ph[e2p[x][1]]) : x \in {y \in 1..Len(labels) : labels[y] = l}}]

\* photo_to_persons after the loop over labels_: filename -> set of persons
photo_to_persons_of(ph, labels, e2p) ==
    [f \in {filename(ph[e2p[x][1]]) : x \in {y \in 1..Len(labels) : labels[y] # -1}} |->
        {labels[x] : x \in {y \in 1..Len(labels) :
                               labels[y] # -1 /\ filename(ph[e2p[y][1]]) = f}}]

\* a filter that keeps every person
retained_any(photo_set) == Cardinality(photo_set) >= 1

\* if len(photo_set) >= 2
retained(photo_set) == Cardinality(photo_set) >= 2

filtered_clusters_of(person_clusters) ==
    [l \in {x \in DOMAIN person_clusters : retained(person_clusters[x])} |->
        person_clusters[l]]

\* filtered_photo_to_persons, rebuilt from the filtered clusters
filtered_photo_to_persons_of(filtered) ==
    [f \in UNION {filtered[l] : l \in DOMAIN filtered} |->
        {l \in DOMAIN filtered : f \in filtered[l]}]

\* a return value that hands out photo_to_persons as the loop left it
returned_maps_stale(person_clusters, photo_to_persons) ==
    [person_clusters |-> filtered_clusters_of(person_clusters),
     photo_to_persons |-> photo_to_persons]

\* the dict the function returns
returned_maps(person_clusters, photo_to_persons) ==
    [person_clusters |-> filtered_clusters_of(person_clusters),
     photo_to_persons |-> filtered_photo_to_persons_of(filtered_clusters_of(person_clusters))]

EmptyMaps == [person_clusters |-> <<>>, photo_to_persons |-> <<>>]

\* if not FACE_RECOGNITION_AVAILABLE
recognize_faces_unavailable ==
    /\ pc = "faces"
    /\ face_result = NoneT
    /\ ~faces.available
    /\ face_result' = [maps |-> EmptyMaps, labels |-> <<>>]
    /\ UNCHANGED <<photos, pc, faces>>
    /\ UNCHANGED <<groupVars, burstVars, dupVars, compared, compose_call, align_call, field_call>>

\* if len(all_embeddings) < 2
recognize_faces_too_few ==
    /\ pc = "faces"
    /\ face_result = NoneT
    /\ faces.available
    /\ Len(all_embeddings(faces.embeddings, 1)) < 2
    /\ face_result' = [maps |-> EmptyMaps, labels |-> <<>>]
    /\ UNCHANGED <<photos, pc, faces>>
    /\ UNCHANGED <<groupVars, burstVars, dupVars, compared, compose_call, align_call, field_call>>

\* the clustering and the two maps built from it
recognize_faces_in_batch ==
    /\ pc = "faces"
    /\ face_result = NoneT
    /\ faces.available
    /\ Len(all_embeddings(faces.embeddings, 1)) >= 2
    /\ LET labels == face_dbscan_labels(embeddings_matrix(all_embeddings(faces.embeddings, 1)))
           e2p == embedding_to_photo(faces.embeddings, 1)
       IN  face_result' =
              [maps |-> returned_maps(person_clusters_of(photos, labels, e2p),
                                      photo_to_persons_of(photos, labels, e2p)),
               labels |-> labels]
    /\ UNCHANGED <<photos, pc, faces>>
    /\ UNCHANGED <<groupVars, burstVars, dupVars, compared, compose_call, align_call, field_call>>

\* what detect_faces finds in one photo: no face, or up to three faces
FaceLists ==
    {<<>>, <<E1>>, <<E2>>, <<E1, E1>>, <<E1, E2>>, <<E2, E2>>, <<E1, E1, E1>>,
     <<E2, E1, E2>>}

\* batch_analyze_photos_v2 when it calls recognize_faces_in_batch
InitFaces ==
    /\ \E n \in 0..NumPhotos :
         /\ photos = DupBatch(n)
         /\ \E av \in BOOLEAN : \E fs \in [1..n -> FaceLists] :
               faces = [available |-> av, embeddings |-> fs]
    /\ face_result = NoneT
    /\ pc = "faces"
    /\ groups = <<>>
    /\ returned = <<>>
    /\ calls = 0
    /\ regime = "none"
    /\ InitBurstIdle /\ InitDupIdle /\ InitCompareIdle /\ InitComposeIdle
    /\ InitAlignIdle /\ InitFieldIdle

NextFaces == recognize_faces_unavailable \/ recognize_faces_too_few \/ recognize_faces_in_batch

SpecFaces == InitFaces /\ [][NextFaces]_vars

(***************************************************************************)
(* Properties of recognize_faces_in_batch                                  *)
(***************************************************************************)
FacesDone == pc = "faces" /\ face_result # NoneT

PersonClusters == face_result.maps.person_clusters
PhotoToPersons == face_result.maps.photo_to_persons

\* the photos that hold a face with the label l
PhotosOfLabel(l) ==
    {embedding_to_photo(faces.embeddings, 1)[x][1] :
        x \in {y \in 1..Len(face_result.labels) : face_result.labels[y] = l}}

FaceLabels == {face_result.labels[x] : x \in 1..Len(face_result.labels)} \ {-1}

\* C15: every person cluster of the result lists at least 2 distinct photos;
\* a label whose faces all come from one photo is dropped, however many
\* faces it has; a photo is listed for a person only if one of its faces
\* has that person's label, so noise faces belong to no person; and with
\* fewer than 2 face embeddings in the batch both maps are empty.
C15_PersonClusters ==
    FacesDone =>
        /\ \A l \in DOMAIN PersonClusters : Cardinality(PersonClusters[l]) >= 2
        /\ \A l \in FaceLabels :
              Cardinality(PhotosOfLabel(l)) = 1 => l \notin DOMAIN PersonClusters
        /\ \A l \in DOMAIN PersonClusters :
              /\ l # -1
              /\ PersonClusters[l] = {filename(photos[k]) : k \in PhotosOfLabel(l)}
        /\ Len(all_embeddings(faces.embeddings, 1)) < 2 =>
              (PersonClusters = <<>> /\ PhotoToPersons = <<>>)

\* a result with a retained person and a dropped label of three faces that
\* all come from one photo
C15_Witness ==
    /\ FacesDone
    /\ DOMAIN PersonClusters # {}
    /\ \E l \in FaceLabels :
          /\ Cardinality(PhotosOfLabel(l)) = 1
          /\ Cardinality({y \in 1..Len(face_result.labels) : face_result.labels[y] = l}) >= 3

\* C16: person_clusters and photo_to_persons are exact inverses over the
\* retained persons: a photo is listed for a person exactly when the person
\* is listed for the photo, and no key of either map has an empty value.
C16_ExactInverses ==
    FacesDone =>
        /\ \A l \in DOMAIN PersonClusters :
              \A f \in PersonClusters[l] :
                 f \in DOMAIN PhotoToPersons /\ l \in PhotoToPersons[f]
        /\ \A f \in DOMAIN PhotoToPersons :
              /\ PhotoToPersons[f] # {}
              /\ \A l \in PhotoToPersons[f] :
                    l \in DOMAIN PersonClusters /\ f \in PersonClusters[l]

\* a photo listed for a retained person, and a photo of a dropped label that
\* is no key of photo_to_persons
C16_Witness ==
    /\ FacesDone
    /\ DOMAIN PhotoToPersons # {}
    /\ \E k \in 1..Len(photos) :
          /\ filename(photos[k]) \notin DOMAIN PhotoToPersons
          /\ \E l \in FaceLabels : k \in PhotosOfLabel(l)


(***************************************************************************)
(* Phase 2.5c on batches without timestamps                                *)
(***************************************************************************)
\* raw sharpness, face count and aesthetic score of the photos (tenths)
ScoreInputs ==
    {[sharp |-> sh, fc |-> fc, aes |-> a] :
        sh \in {2, 4, 5, 8}, fc \in {0, 2}, a \in {1, 9}}

ScoreBatch(inp) ==
    [k \in 1..Len(inp) |->
        PhotoMetadata(k, None, None, None, NoneT, inp[k].sharp, 5, inp[k].fc, inp[k].aes)]

\* batch_analyze_photos_v2 when the burst scan found no dated photo
InitScores ==
    /\ \E n \in 1..NumPhotos : \E inp \in [1..n -> ScoreInputs] : photos = ScoreBatch(inp)
    /\ photos_sorted = <<>>
    /\ i = 1
    /\ burst_groups = <<>>
    /\ burst_id_counter = 0
    /\ last_scan = NoneT
    /\ pc = "burst"
    /\ groups = <<>>
    /\ returned = <<>>
    /\ calls = 0
    /\ regime = "none"
    /\ InitDupIdle /\ InitCompareIdle /\ InitFacesIdle /\ InitComposeIdle
    /\ InitAlignIdle /\ InitFieldIdle

NextScores == normalize_scores

SpecScores == InitScores /\ [][NextScores]_vars

(***************************************************************************)
(* Properties of the score normalisation                                   *)
(***************************************************************************)
RawScores == [k \in 1..Len(photos) |-> photos[k].tech_sharpness_score.n]

\* four times the 25th and the 75th percentile of the raw sharpness scores
P25x4 == percentile_x4(RawScores, 1)
P75x4 == percentile_x4(RawScores, 3)

\* C17: the normalisation step leaves every sharpness score as it is when
\* p25 = p75; when they differ a score s becomes (s - p25) / (p75 - p25),
\* replaced by 0 when that is below 0 and by 1 when it is above 1.
C17_Normalisation ==
    [][(pc = "burst" /\ pc' = "done") =>
          \A k \in 1..Len(photos) :
             LET raw == photos[k].tech_sharpness_score
                 new == photos'[k].tech_sharpness_score
                 num == 4 * raw.n - P25x4 * raw.d
                 den == (P75x4 - P25x4) * raw.d
             IN  IF P25x4 = P75x4 THEN new = raw
                 ELSE /\ num <= 0 => FracEq(new, Frac(0, 1))
                      /\ num >= den => FracEq(new, Frac(10, 1))
                      /\ (0 < num /\ num < den) => FracEq(new, Frac(10 * num, den))]_vars

\* a normalised batch with a score clamped to 0, a score clamped to 1 and a
\* score strictly between them
C17_Witness ==
    /\ pc = "done"
    /\ \E a, b, c \in 1..Len(photos) :
          /\ photos[a].tech_sharpness_score.n = 0
          /\ FracEq(photos[b].tech_sharpness_score, Frac(10, 1))
          /\ photos[c].tech_sharpness_score.n > 0
          /\ FracLess(photos[c].tech_sharpness_score, Frac(10, 1))
          /\ photos[a].tech_sharpness_score.d = 1
          /\ photos[c].tech_sharpness_score.d > 1

\* C18: once the normalisation step is over, on any batch, every photo's
\* composite quality is 0.5 * sharpness + 0.3 * exposure + 0.2 * f with its
\* current sharpness, f being 1.0 with at least one face and 0.5 otherwise.
C18_CompositeRecomputed ==
    pc = "done" =>
        \A k \in 1..Len(photos) :
           LET sh == photos[k].tech_sharpness_score
               f == IF photos[k].face_count > 0 THEN 10 ELSE 5
           IN  FracEq(photos[k].tech_overall_quality,
                      Frac(5 * sh.n + (3 * photos[k].tech_exposure_quality + 2 * f) * sh.d,
                           10 * sh.d))

\* the same for the batches whose percentiles differ
C18_CompositeRecomputedSpread ==
    [][(pc = "burst" /\ pc' = "done" /\ P25x4 # P75x4) =>
          \A k \in 1..Len(photos) :
             LET sh == photos'[k].tech_sharpness_score
                 f == IF photos[k].face_count > 0 THEN 10 ELSE 5
             IN  FracEq(photos'[k].tech_overall_quality,
                        Frac(5 * sh.n + (3 * photos[k].tech_exposure_quality + 2 * f) * sh.d,
                             10 * sh.d))]_vars


(***************************************************************************)
(* SemanticKey.compose                                                     *)
(***************************************************************************)
MaxKeys == 2            \* longest list of keys handed to compose
MaxWeights == MaxKeys + 1

\* A vector is held exactly, as whole components x, y and the square q of a
\* common factor: it is (x, y) * sqrt(q), with q a fraction above 0.
RECURSIVE Gcd(_, _)
Gcd(a, b) == IF b = 0 THEN a ELSE Gcd(b, a % b)

AbsInt(x) == IF x < 0 THEN 0 - x ELSE x

\* n / d in lowest terms, with a positive denominator
Reduced(n, d) ==
    LET g == Gcd(AbsInt(n), AbsInt(d))
    IN  IF d > 0 THEN Frac(n \div g, d \div g) ELSE Frac((0 - n) \div g, (0 - d) \div g)

Vec(x, y, q) == [x |-> x, y |-> y, q |-> q]

\* np.array([x, y]) with whole components
ndarray(x, y) == Vec(x, y, Frac(1, 1))

IsZero(v) == v.x = 0 /\ v.y = 0

\* np.linalg.norm(v), squared
linalg_norm2(v) == Reduced((v.x * v.x + v.y * v.y) * v.q.n, v.q.d)

\* a vector divided by the square of its norm
normalized_by_square(v) ==
    LET N == linalg_norm2(v)
    IN  IF N.n > 0 THEN [v EXCEPT !.q = Reduced(v.q.n * N.d * N.d, v.q.d * N.n * N.n)]
        ELSE v

\* norm = np.linalg.norm(v); if norm > 0: v = v / norm
\* (dividing the vector by norm divides q by the square of norm)
normalized(v) ==
    LET N == linalg_norm2(v)
    IN  IF N.n > 0 THEN [v EXCEPT !.q = Reduced(v.q.n * N.d, v.q.d * N.n)]
        ELSE v

\* the vector as (x, y) / den, for a vector whose factor sqrt(q) is a fraction
as_rational(v) ==
    [x |-> v.x * Sqrt(v.q.n), y |-> v.y * Sqrt(v.q.n), den |-> Sqrt(v.q.d)]

\* np.dot(a, b), for vectors whose factors multiply to a fraction
np_dot(a, b) ==
    Reduced((a.x * b.x + a.y * b.y) * Sqrt(a.q.n * b.q.n), Sqrt(a.q.d * b.q.d))

\* SemanticKey(...): the dataclass and its __post_init__
SemanticKey(vector, key_id, role, metadata) ==
    [vector |-> normalized(vector), key_id |-> key_id, role |-> role,
     metadata |-> metadata]

NoMetadata == [composed_from |-> <<>>, weights |-> <<>>]

\* sum(weights), as an exact fraction
RECURSIVE FracSum(_)
FracSum(ws) ==
    IF ws = <<>> THEN Frac(0, 1)
    ELSE LET r == FracSum(Tail(ws))
         IN  Frac(Head(ws).n * r.d + r.n * Head(ws).d, Head(ws).d * r.d)

\* w / total for total # 0, with a positive denominator
FracDiv(w, total) ==
    IF total.n > 0 THEN Frac(w.n * total.d, w.d * total.n)
    ELSE Frac(-(w.n * total.d), w.d * (-total.n))

\* weights = [1.0 / len(keys)] * len(keys) if weights is None
default_weights(keys, given, weights) ==
    IF given THEN [k \in 1..Len(weights) |-> Frac(weights[k], 1)]
    ELSE [k \in 1..Len(keys) |-> Frac(1, Len(keys))]

\* weights = [w / total for w in weights]
rescaled_weights(ws) == [k \in 1..Len(ws) |-> FracDiv(ws[k], FracSum(ws))]

\* zip(keys, weights): pairs up to the shorter of the two
zip(keys, ws) ==
    [k \in 1..(IF Len(keys) < Len(ws) THEN Len(keys) ELSE Len(ws)) |->
        [key |-> k, weight |-> ws[k]]]

\* (x, y) / den without a common divisor
reduce_rat(x, y, den) ==
    LET g == Gcd(Gcd(AbsInt(x), AbsInt(y)), den)
    IN  [x |-> x \div g, y |-> y \div g, den |-> den \div g]

\* composed after "for key, weight in zip(keys, weights)", from pair k on
RECURSIVE weighted_sum(_, _, _)
weighted_sum(keys, pairs, k) ==
    IF k > Len(pairs) THEN [x |-> 0, y |-> 0, den |-> 1]
    ELSE LET w == pairs[k].weight
             v == as_rational(keys[pairs[k].key].vector)
             r == weighted_sum(keys, pairs, k + 1)
         IN  reduce_rat(w.n * v.x * r.den + r.x * w.d * v.den,
                        w.n * v.y * r.den + r.y * w.d * v.den,
                        w.d * v.den * r.den)

\* composed after "if norm > 0: composed = composed / norm"
composed_vector(keys, pairs) ==
    LET c == weighted_sum(keys, pairs, 1)
    IN  normalized(Vec(c.x, c.y, Frac(1, c.den * c.den)))

\* "_".join([k.key_id for k in keys]): the identifiers with 0 between them
RECURSIVE join(_)
join(ids) ==
    IF ids = <<>> THEN <<>>
    ELSE IF Len(ids) = 1 THEN Head(ids)
    ELSE Head(ids) \o <<0>> \o join(Tail(ids))

\* hashlib.md5(...).hexdigest()[:8]: a digest, taken to tell its inputs apart
md5_8(text) == <<-1>> \o text

key_ids(keys) == [k \in 1..Len(keys) |-> keys[k].key_id]

\* an identifier that also takes in how many weights were used
new_id_weighted(keys, ws) == md5_8(join(key_ids(keys)) \o <<0, Len(ws)>>)

\* combined_ids and new_id
new_id(keys, ws) == md5_8(join(key_ids(keys)))

\* compose from "if weights is None" on, for a non-empty list of keys
compose_some(keys, given, weights) ==
    LET ws0 == default_weights(keys, given, weights)
    IN  IF ws0 # <<>> /\ FracSum(ws0).n = 0
        THEN [status |-> "ZeroDivisionError", result |-> NoneT, applied |-> <<>>]
        ELSE LET ws == rescaled_weights(ws0)
                 pairs == zip(keys, ws)
             IN  [status |-> "returned",
                  result |-> SemanticKey(composed_vector(keys, pairs),
                                         new_id(keys, ws),
                                         "composite",
                                         [composed_from |-> key_ids(keys), weights |-> ws]),
                  applied |-> pairs]

\* a compose that answers an empty list with a key of the zero vector
compose_outcome_lenient(keys, given, weights) ==
    IF keys = <<>>
    THEN [status |-> "returned",
          result |-> SemanticKey(ndarray(0, 0), md5_8(<<>>), "composite", NoMetadata),
          applied |-> <<>>]
    ELSE compose_some(keys, given, weights)

\* what a call compose(keys, weights) does
compose_outcome(keys, given, weights) ==
    IF keys = <<>>
    THEN [status |-> "ValueError", result |-> NoneT, applied |-> <<>>]
    ELSE compose_some(keys, given, weights)

compose ==
    /\ pc = "compose"
    /\ compose_call.status = "called"
    /\ LET r == compose_outcome(compose_call.keys, compose_call.given, compose_call.weights)
       IN  compose_call' = [compose_call EXCEPT
                              !.status = r.status, !.result = r.result,
                              !.applied = r.applied]
    /\ UNCHANGED <<photos, pc>>
    /\ UNCHANGED <<groupVars, burstVars, dupVars, compared, faceVars, align_call, field_call>>

\* the keys handed to compose, built from a vector and an identifier: three
\* of length 10, one of them opposite to another, and the zero vector
InputKeys ==
    {SemanticKey(ndarray(10, 0), <<1>>, "anchor", NoMetadata),
     SemanticKey(ndarray(8, 6), <<2>>, "anchor", NoMetadata),
     SemanticKey(ndarray(-10, 0), <<3>>, "gate", NoMetadata),
     SemanticKey(ndarray(0, 0), <<4>>, "link", NoMetadata)}

InputWeights == {-1, 0, 1, 3}

\* the identifier, role and member list of a call's result
summary_of(call) ==
    IF call.status = "returned"
    THEN [status |-> call.status, key_id |-> call.result.key_id,
          role |-> call.result.role,
          composed_from |-> call.result.metadata.composed_from]
    ELSE [status |-> call.status, key_id |-> <<>>, role |-> "", composed_from |-> <<>>]

\* the caller calls compose once more, with the same keys and other weights
compose_again ==
    /\ pc = "compose"
    /\ compose_call.status # "called"
    /\ compose_call.previous = NoneT
    /\ \/ compose_call' = [compose_call EXCEPT
                              !.given = FALSE, !.weights = <<>>, !.status = "called",
                              !.result = NoneT, !.applied = <<>>,
                              !.previous = summary_of(compose_call)]
       \/ \E m \in 0..MaxWeights : \E ws \in [1..m -> InputWeights] :
             compose_call' = [compose_call EXCEPT
                                !.given = TRUE, !.weights = ws, !.status = "called",
                                !.result = NoneT, !.applied = <<>>,
                                !.previous = summary_of(compose_call)]
    /\ UNCHANGED <<photos, pc>>
    /\ UNCHANGED <<groupVars, burstVars, dupVars, compared, faceVars, align_call, field_call>>

\* a call compose(keys, weights): weights is None (given = FALSE) or a list
InitCompose ==
    /\ \E n \in 0..MaxKeys : \E ks \in [1..n -> InputKeys] :
         \/ compose_call = [keys |-> ks, given |-> FALSE, weights |-> <<>>,
                            status |-> "called", result |-> NoneT, applied |-> <<>>,
                            previous |-> NoneT]
         \/ \E m \in 0..MaxWeights : \E ws \in [1..m -> InputWeights] :
               compose_call = [keys |-> ks, given |-> TRUE, weights |-> ws,
                               status |-> "called", result |-> NoneT, applied |-> <<>>,
                               previous |-> NoneT]
    /\ pc = "compose"
    /\ photos = <<>>
    /\ groups = <<>>
    /\ returned = <<>>
    /\ calls = 0
    /\ regime = "none"
    /\ InitBurstIdle /\ InitDupIdle /\ InitCompareIdle /\ InitFacesIdle
    /\ InitAlignIdle /\ InitFieldIdle

NextCompose == compose \/ compose_again

SpecCompose == InitCompose /\ [][NextCompose]_vars

(***************************************************************************)
(* Properties of SemanticKey.compose                                       *)
(***************************************************************************)
ComposeOver == pc = "compose" /\ compose_call.status # "called"

\* C19: compose called with an empty list of keys raises an error to the
\* caller and constructs no key, whatever weights is.
C19_EmptyKeysRaise ==
    (ComposeOver /\ compose_call.keys = <<>>) =>
        (compose_call.status = "ValueError" /\ compose_call.result = NoneT)

\* a call with no keys and a list of weights has raised
C19_Witness ==
    /\ ComposeOver
    /\ compose_call.keys = <<>>
    /\ compose_call.given
    /\ Len(compose_call.weights) >= 2
    /\ compose_call.status = "ValueError"

\* the weights recorded in the result sum to 1
SumsToOne(ws) == FracSum(ws).n = FracSum(ws).d

\* C20: for a non-empty list of keys and any supplied weights, compose
\* returns a key; the weights it uses sum to 1 (each 1/n when none are
\* given, each w / sum(weights) otherwise), exactly one weight is applied to
\* each key, and those weights are the ones recorded in the metadata.
C20_WeightsRescaled ==
    (ComposeOver /\ compose_call.keys # <<>>) =>
        /\ compose_call.status = "returned"
        /\ SumsToOne(compose_call.result.metadata.weights)
        /\ Len(compose_call.applied) = Len(compose_call.keys)
        /\ \A k \in 1..Len(compose_call.keys) :
              /\ compose_call.applied[k].key = k
              /\ compose_call.applied[k].weight = compose_call.result.metadata.weights[k]
              /\ ~compose_call.given =>
                    FracEq(compose_call.applied[k].weight, Frac(1, Len(compose_call.keys)))
        /\ Len(compose_call.result.metadata.weights) = Len(compose_call.keys)

\* the same for the calls that give no weights, or as many weights as keys
\* with a sum other than 0
C20_WeightsRescaledMatching ==
    (/\ ComposeOver /\ compose_call.keys # <<>>
     /\ compose_call.given =>
           /\ Len(compose_call.weights) = Len(compose_call.keys)
           /\ SeqSum(compose_call.weights) # 0) =>
        /\ compose_call.status = "returned"
        /\ SumsToOne(compose_call.result.metadata.weights)
        /\ Len(compose_call.applied) = Len(compose_call.keys)
        /\ \A k \in 1..Len(compose_call.keys) :
              /\ compose_call.applied[k].key = k
              /\ compose_call.applied[k].weight = compose_call.result.metadata.weights[k]
              /\ ~compose_call.given =>
                    FracEq(compose_call.applied[k].weight, Frac(1, Len(compose_call.keys)))
              /\ compose_call.given =>
                    FracEq(compose_call.applied[k].weight,
                           IF SeqSum(compose_call.weights) > 0
                           THEN Frac(compose_call.weights[k], SeqSum(compose_call.weights))
                           ELSE Frac(-compose_call.weights[k], -SeqSum(compose_call.weights)))
        /\ Len(compose_call.result.metadata.weights) = Len(compose_call.keys)


\* C21: the identifier compose gives its result is determined by the keys:
\* a second call with the same keys in the same order returns the same
\* identifier whatever the weights of the two calls, the identifier is the
\* digest of the member identifiers joined in input order, the role is
\* "composite", and the metadata lists the member identifiers in input order.
C21_IdentifierDeterministic ==
    (ComposeOver /\ compose_call.status = "returned") =>
        /\ compose_call.result.role = "composite"
        /\ Len(compose_call.result.metadata.composed_from) = Len(compose_call.keys)
        /\ \A k \in 1..Len(compose_call.keys) :
              compose_call.result.metadata.composed_from[k] = compose_call.keys[k].key_id
        /\ compose_call.result.key_id =
              md5_8(join([k \in 1..Len(compose_call.keys) |-> compose_call.keys[k].key_id]))
        /\ (compose_call.previous # NoneT /\ compose_call.previous.status = "returned") =>
              /\ compose_call.previous.key_id = compose_call.result.key_id
              /\ compose_call.previous.role = compose_call.result.role
              /\ compose_call.previous.composed_from = compose_call.result.metadata.composed_from

\* two calls with the same two keys have returned, the first with one weight
\* and the second with two
C21_Witness ==
    /\ ComposeOver /\ compose_call.status = "returned"
    /\ compose_call.previous # NoneT
    /\ compose_call.previous.status = "returned"
    /\ Len(compose_call.keys) = 2
    /\ compose_call.keys[1] # compose_call.keys[2]
    /\ compose_call.given
    /\ Len(compose_call.weights) = 2
    /\ Len(compose_call.result.metadata.weights) = 2


\* every key of the call: the ones handed in and the one returned
KeysOfCall ==
    Range(compose_call.keys) \cup
    (IF compose_call.status = "returned" THEN {compose_call.result} ELSE {})

\* C24: every key, constructed directly or returned by compose, holds a
\* vector of Euclidean norm 1 or the zero vector; the returned key holds the
\* zero vector exactly when the weighted sum of the member vectors is zero.
C24_UnitOrZero ==
    pc = "compose" =>
        /\ \A key \in KeysOfCall :
              \/ IsZero(key.vector)
              \/ linalg_norm2(key.vector) = Frac(1, 1)
        /\ (ComposeOver /\ compose_call.status = "returned") =>
              LET c == weighted_sum(compose_call.keys, compose_call.applied, 1)
              IN  IsZero(compose_call.result.vector) <=> (c.x = 0 /\ c.y = 0)

\* compose has returned a key of norm 1 whose direction is that of no member,
\* from two keys of which one was built from a vector of length 10
C24_Witness ==
    /\ ComposeOver /\ compose_call.status = "returned"
    /\ Len(compose_call.keys) = 2
    /\ Len(compose_call.applied) = 2
    /\ ~IsZero(compose_call.result.vector)
    /\ linalg_norm2(compose_call.result.vector) = Frac(1, 1)
    /\ compose_call.result.vector.q.d \notin {1, 25, 100}
    /\ \A k \in 1..2 : ~IsZero(compose_call.keys[k].vector)


(***************************************************************************)
(* SemanticKey.alignment                                                   *)
(***************************************************************************)
\* the cosine itself, in [-1, 1], and no test of the norm
alignment_cosine(key, atom_embedding) ==
    np_dot(key.vector, normalized(atom_embedding))

\* key.alignment(atom_embedding), as an exact fraction
alignment(key, atom_embedding) ==
    IF linalg_norm2(atom_embedding).n = 0 THEN Frac(0, 1)
    ELSE LET atom_normalized == normalized(atom_embedding)
             similarity == np_dot(key.vector, atom_normalized)
         IN  Reduced(similarity.n + similarity.d, 2 * similarity.d)

\* one call key.alignment(atom_embedding)
align ==
    /\ pc = "align"
    /\ align_call.status = "called"
    /\ align_call' = [align_call EXCEPT
                        !.status = "returned",
                        !.value = alignment(align_call.key, align_call.atom_embedding)]
    /\ UNCHANGED <<photos, pc>>
    /\ UNCHANGED <<groupVars, burstVars, dupVars, compared, faceVars, compose_call,
                   field_call>>

\* vectors the keys are built from: lengths 10 and 5, and the zero vector
KeyVectors ==
    {ndarray(10, 0), ndarray(8, 6), ndarray(6, 8), ndarray(-10, 0), ndarray(0, -10),
     ndarray(3, 4), ndarray(0, 0)}

\* vectors handed to alignment: lengths 10, 5 and 20, and the zero vector
AtomVectors ==
    {ndarray(10, 0), ndarray(8, 6), ndarray(-6, -8), ndarray(-10, 0), ndarray(0, 10),
     ndarray(3, 4), ndarray(-4, 3), ndarray(20, 0), ndarray(12, 16), ndarray(0, 0)}

\* a key and the vector it is about to be aligned with: one of AtomVectors,
\* or the key's own vector
InitAlign ==
    /\ \E raw \in KeyVectors :
         LET key == SemanticKey(raw, <<1>>, "anchor", NoMetadata)
         IN  \E a \in AtomVectors \cup {key.vector} :
                align_call = [raw |-> raw, key |-> key, atom_embedding |-> a,
                              status |-> "called", value |-> Frac(0, 1)]
    /\ pc = "align"
    /\ photos = <<>>
    /\ groups = <<>>
    /\ returned = <<>>
    /\ calls = 0
    /\ regime = "none"
    /\ InitBurstIdle /\ InitDupIdle /\ InitCompareIdle /\ InitFacesIdle
    /\ InitComposeIdle /\ InitFieldIdle

NextAlign == align

SpecAlign == InitAlign /\ [][NextAlign]_vars

(***************************************************************************)
(* Properties of SemanticKey.alignment                                     *)
(***************************************************************************)
Aligned == pc = "align" /\ align_call.status = "returned"

\* length of the whole vector (x, y), for the vectors used here
Length(v) == Sqrt(v.x * v.x + v.y * v.y)

\* C22: alignment returns exactly 0 when the argument has zero norm; for any
\* other argument and a key whose vector is not zero it returns a value in
\* [0, 1] equal to (cos + 1) / 2, cos being the cosine of the angle between
\* the key's vector and the argument, and it returns 1 for the key's own vector.
C22_Alignment ==
    Aligned =>
        LET k == align_call.key.vector
            a == align_call.atom_embedding
            v == align_call.value
        IN  /\ IsZero(a) => v.n = 0
            /\ (~IsZero(a) /\ ~IsZero(k)) =>
                  /\ 0 <= v.n /\ v.n <= v.d
                  /\ (2 * v.n - v.d) * Length(k) * Length(a)
                        = (k.x * a.x + k.y * a.y) * v.d
                  /\ a = k => v = Frac(1, 1)

\* a key of length 10 was aligned with a vector of another length at an
\* angle whose cosine is neither -1, 0 nor 1
C22_Witness ==
    /\ Aligned
    /\ ~IsZero(align_call.key.vector)
    /\ ~IsZero(align_call.atom_embedding)
    /\ Length(align_call.raw) # Length(align_call.atom_embedding)
    /\ align_call.value.d > 2
    /\ align_call.value.n > 0
    /\ align_call.value.n < align_call.value.d

\* C23: a key built from the zero vector keeps the zero vector, and the
\* alignment of that key against any vector is 0.
C23_DegenerateKey ==
    (pc = "align" /\ IsZero(align_call.raw)) =>
        /\ IsZero(align_call.key.vector)
        /\ Aligned => align_call.value.n = 0


(***************************************************************************)
(* SemanticField.activate                                                  *)
(***************************************************************************)
NumAtoms == 2           \* most atoms of a field

\* SemanticAtom(data, embedding) and its __post_init__; of data only the
\* 'timestamp' entry matters here (None: data has no such entry)
SemanticAtom(timestamp, embedding) ==
    [timestamp |-> timestamp, embedding |-> normalized(embedding)]

\* a decay function handed to activate: 1 / (1 + timestamp)
decay_fn(timestamp) == Frac(1, 1 + timestamp)

\* sum(alignments) / len(alignments) if alignments else 0.0
agg_alignment(keys, atom) ==
    LET alignments == [k \in 1..Len(keys) |-> alignment(keys[k], atom.embedding)]
    IN  IF alignments # <<>>
        THEN Reduced(FracSum(alignments).n, FracSum(alignments).d * Len(alignments))
        ELSE Frac(0, 1)

\* agg_alignment after "if decay_fn and 'timestamp' in atom.data"
decayed_alignment(keys, atom, decay) ==
    LET agg == agg_alignment(keys, atom)
    IN  IF decay /\ atom.timestamp # None
        THEN Reduced(agg.n * decay_fn(atom.timestamp).n, agg.d * decay_fn(atom.timestamp).d)
        ELSE agg

\* a test that leaves out a score equal to the threshold
passes_strictly(score, threshold) == FracLess(threshold, score)

\* if agg_alignment >= self.threshold
passes(score, threshold) == ~FracLess(score, threshold)

\* results after the loop over self.atoms, from atom k on
RECURSIVE activated_from(_, _, _, _, _)
activated_from(keys, atoms, threshold, decay, k) ==
    IF k > Len(atoms) THEN <<>>
    ELSE LET score == decayed_alignment(keys, atoms[k], decay)
             rest == activated_from(keys, atoms, threshold, decay, k + 1)
         IN  IF passes(score, threshold)
             THEN <<[atom |-> k, score |-> score]>> \o rest
             ELSE rest

\* the place of one entry in a list sorted by score, highest first, behind
\* the entries of the same score
RECURSIVE InsertByScore(_, _)
InsertByScore(s, e) ==
    IF s = <<>> THEN <<e>>
    ELSE IF FracLess(Head(s).score, e.score) THEN <<e>> \o s
    ELSE <<Head(s)>> \o InsertByScore(Tail(s), e)

\* results.sort(key=lambda x: x[1], reverse=True): stable
RECURSIVE sort_descending(_)
sort_descending(s) ==
    IF s = <<>> THEN <<>>
    ELSE InsertByScore(sort_descending(SubSeq(s, 1, Len(s) - 1)), s[Len(s)])

\* field.activate(decay_fn)
activate ==
    /\ pc = "activate"
    /\ field_call.status = "called"
    /\ field_call' = [field_call EXCEPT
                        !.status = "returned",
                        !.results = sort_descending(
                            activated_from(field_call.keys, field_call.atoms,
                                           field_call.threshold, field_call.decay, 1))]
    /\ UNCHANGED <<photos, pc>>
    /\ UNCHANGED <<groupVars, burstVars, dupVars, compared, faceVars, compose_call,
                   align_call>>

FieldKeys ==
    {SemanticKey(ndarray(10, 0), <<1>>, "anchor", NoMetadata),
     SemanticKey(ndarray(6, 8), <<2>>, "anchor", NoMetadata),
     SemanticKey(ndarray(0, 0), <<3>>, "gate", NoMetadata)}

FieldAtoms ==
    {SemanticAtom(t, e) :
        t \in {None, 0, 1}, e \in {ndarray(10, 0), ndarray(3, 4), ndarray(0, 0)}}

\* thresholds of a field: the default 0.5, and 0 and 0.9
Thresholds == {Frac(1, 2), Frac(0, 1), Frac(9, 10)}

\* a field and a call of activate, with or without a decay function
InitActivate ==
    /\ \E n \in 0..MaxKeys : \E ks \in [1..n -> FieldKeys] :
         \E m \in 0..NumAtoms : \E as \in [1..m -> FieldAtoms] :
            \E th \in Thresholds : \E decay \in BOOLEAN :
               field_call = [keys |-> ks, atoms |-> as, threshold |-> th,
                             decay |-> decay, status |-> "called", results |-> <<>>]
    /\ pc = "activate"
    /\ photos = <<>>
    /\ groups = <<>>
    /\ returned = <<>>
    /\ calls = 0
    /\ regime = "none"
    /\ InitBurstIdle /\ InitDupIdle /\ InitCompareIdle /\ InitFacesIdle
    /\ InitComposeIdle /\ InitAlignIdle

NextActivate == activate

SpecActivate == InitActivate /\ [][NextActivate]_vars

(***************************************************************************)
(* Properties of SemanticField.activate                                    *)
(***************************************************************************)
Activated == pc = "activate" /\ field_call.status = "returned"

\* the mean of the alignments of atom k to the keys of the field (0 for a
\* field without keys), times the decay factor when a decay function is
\* given and the atom has a timestamp; as numerator and denominator
MeanTimesDecay(k) ==
    LET keys == field_call.keys
        atom == field_call.atoms[k]
        total == FracSum([j \in 1..Len(keys) |-> alignment(keys[j], atom.embedding)])
        mean == IF Len(keys) = 0 THEN Frac(0, 1) ELSE Frac(total.n, total.d * Len(keys))
    IN  IF field_call.decay /\ atom.timestamp # None
        THEN Frac(mean.n, mean.d * (1 + atom.timestamp))
        ELSE mean

\* C25: activate returns exactly the atoms whose aggregated alignment is at
\* least the field's threshold, each once and paired with that score, in
\* order of non-increasing score; for a field without keys the aggregated
\* alignment of every atom is 0.
C25_Activate ==
    Activated =>
        /\ {field_call.results[r].atom : r \in 1..Len(field_call.results)}
              = {k \in 1..Len(field_call.atoms) :
                    ~FracLess(MeanTimesDecay(k), field_call.threshold)}
        /\ \A r, t \in 1..Len(field_call.results) :
              r # t => field_call.results[r].atom # field_call.results[t].atom
        /\ \A r \in 1..Len(field_call.results) :
              FracEq(field_call.results[r].score, MeanTimesDecay(field_call.results[r].atom))
        /\ \A r \in 1..(Len(field_call.results) - 1) :
              ~FracLess(field_call.results[r].score, field_call.results[r + 1].score)
        /\ field_call.keys = <<>> =>
              /\ \A r \in 1..Len(field_call.results) : field_call.results[r].score.n = 0
              /\ field_call.threshold.n > 0 => field_call.results = <<>>

\* a field of two keys and two atoms, with decay: the second atom comes
\* first in the list returned, with a higher score than the first
C25_Witness ==
    /\ Activated
    /\ Len(field_call.keys) = 2
    /\ field_call.decay
    /\ Len(field_call.results) = 2
    /\ field_call.results[1].atom = 2
    /\ FracLess(field_call.results[2].score, field_call.results[1].score)
    /\ field_call.atoms[1].timestamp = 1
    /\ FracEq(field_call.results[2].score, field_call.threshold)

====
